---- MODULE Spec2Model ----
(***************************************************************************)
(* A model of umber (casualjim/scat): the line-range slicer, the unified   *)
(* diff parser, the decoration composer and the streaming highlight        *)
(* compositor of src/main.rs, src/git.rs, src/decorations.rs and           *)
(* src/unprintable.rs.                                                     *)
(*                                                                         *)
(* Text is a sequence of one-character strings.  Rendered output is a      *)
(* sequence of items: a character, a glyph of the unprintable transform,   *)
(* or an escape token of the terminal renderer ("ESC[...").                *)
(***************************************************************************)
EXTENDS Integers, Sequences, FiniteSets, TLC

VARIABLES
  pc,                      \* position of the running operation
  \* ---- slice_bytes_by_line_range (main.rs) ----
  bytes,                   \* the byte buffer read from the file
  range,                   \* the LineRange {start, end}
  sliced,                  \* slice(bytes, range)
  resliced,                \* slice(sliced, range)
  \* ---- squeeze_blank_lines_bytes (main.rs) ----
  limit,                   \* the squeeze limit
  squeezed,                \* compact(bytes, limit)
  resqueezed,              \* compact(squeezed, limit)
  \* ---- render_decorated_line (decorations.rs) ----
  call,                    \* its arguments: content, line_no, config, line_change,
                           \* line_number_width
  output,                  \* the String it returns
  \* ---- parse_unified_diff (git.rs) ----
  diff,                    \* the diff text, as its sequence of lines
  next_i,                  \* index of the next line the `lines` iterator yields
  changes,                 \* HashMap<usize, LineChange>
  current_new_line,        \* the new-file cursor
  change_map,              \* the returned Vec<Option<LineChange>>
  \* ---- write_rendered_text and the streaming compositor (main.rs) ----
  text,                    \* the (sliced, compacted) UTF-8 text
  cfg,                     \* show_numbers, show_changes, show_all, char_style,
                           \* line_number_start, git_changes
  iter_pos,                \* byte offset the event iterator has reached
  lines,                   \* sub-lines of the current Source span not yet processed
  ends_with_newline,       \* whether the current Source span ends with '\n'
  style_stack,             \* Vec<usize> of highlight ids
  line_no,                 \* displayed line number of the current row
  line_index,              \* index into git_changes of the current row
  line_has_content,
  line_content,            \* fragments (text, style key) of the current row
  flushed_visible_output,
  out,                     \* the StreamBuffer: buf, the sink it writes to, and
                           \* the history of its pushes and flushes
  result,                  \* what write_highlighted_text_stream returned
  stray_at,                \* history: the offsets the iterator had reached when a
                           \* HighlightEnd arrived while style_stack was empty
  hist                     \* history of the run: rows, the line numbers handed to
                           \* render_decorated_line; after_line, the largest size
                           \* the buffer had once a completed line was handled

sliceVars == <<bytes, range, sliced, resliced>>
squeezeVars == <<limit, squeezed, resqueezed>>
rowVars == <<call, output>>
pureVars == <<sliceVars, squeezeVars, rowVars>>
diffVars == <<diff, next_i, changes, current_new_line, change_map>>
streamVars == <<text, cfg, iter_pos, lines, ends_with_newline,
                style_stack, line_no, line_index, line_has_content, line_content,
                flushed_visible_output, out, result, stray_at, hist>>
vars == <<pc, pureVars, diffVars, streamVars>>

-----------------------------------------------------------------------------
(* Bounds of the model *)

MaxBytes == 5          \* longest byte buffer handed to the slicer
MaxRangeEnd == 3       \* largest line number of a LineRange
MaxLimit == 2          \* largest squeeze limit
MaxFragments == 2      \* most content fragments of a row handed to render_decorated_line
MaxWidth == 3          \* largest line_number_width handed to render_decorated_line
MaxDiffLines == 4      \* longest diff, in lines
MaxTextLen == 3        \* longest text handed to the compositor, in symbols
MaxScopeDepth == 1     \* deepest nesting of highlight scopes in an event stream
MaxStrayTextLen == 2   \* longest text of a run whose event stream is malformed
MaxChars == 2          \* longest string of code points handed to show_unprintable
MaxRangeChars == 3     \* longest --lines argument, in characters
MaxRevisitLines == 5   \* longest diff whose hunks may revisit a line, in lines
MaxEmitBytes == 2      \* longest content handed to emit_bytes, in bytes
MaxStyleDepth == 2     \* deepest nesting of scopes in the runs that mix styled and "none" scopes
BlockBytes == 40000    \* bytes the symbol "X" (a run of one ordinary character) stands for

(* Program constants *)

STREAM_OUTPUT_BUFFER_BYTES == 65536
STREAM_OUTPUT_FLUSH_BYTES == 8192

-----------------------------------------------------------------------------
(* Generic helpers on sequences *)

RECURSIVE SeqsUpTo(_, _)
SeqsUpTo(S, n) ==
  IF n = 0 THEN {<<>>}
  ELSE LET shorter == SeqsUpTo(S, n - 1)
       IN shorter \cup {Append(s, x) : s \in {t \in shorter : Len(t) = n - 1}, x \in S}

RECURSIVE Concat(_)
Concat(ss) == IF ss = <<>> THEN <<>> ELSE Head(ss) \o Concat(Tail(ss))

RECURSIVE CountOf(_, _)
CountOf(s, x) ==
  IF s = <<>> THEN 0 ELSE (IF Head(s) = x THEN 1 ELSE 0) + CountOf(Tail(s), x)

Range(s) == {s[i] : i \in DOMAIN s}
Last(s) == s[Len(s)]

NoneVal == "None"

-----------------------------------------------------------------------------
(* slice_bytes_by_line_range, main.rs 1351-1375 *)

ByteAlphabet == {"a", "\r", "\n"}

\* a slip of InRange: the start of the range is excluded
InRangeExclusiveStart(n, r) == n > r.start /\ n <= r.end

InRange(n, r) == n >= r.start /\ n <= r.end

(* The for loop over bytes.iter().enumerate(): index is 1-based here, start  *)
(* is the 1-based index of the first byte of the current line.  The result   *)
(* is the (out, line_no, start, returned) the loop ends with.                *)
RECURSIVE SliceLoop(_, _, _, _, _, _)
SliceLoop(b, r, index, lineNo, start, acc) ==
  IF index > Len(b) THEN [out |-> acc, line_no |-> lineNo, start |-> start, returned |-> FALSE]
  ELSE IF b[index] = "\n"
       THEN LET acc2 == IF InRange(lineNo, r) THEN acc \o SubSeq(b, start, index) ELSE acc
            IN IF lineNo + 1 > r.end
               THEN [out |-> acc2, line_no |-> lineNo + 1, start |-> start, returned |-> TRUE]
               ELSE SliceLoop(b, r, index + 1, lineNo + 1, index + 1, acc2)
       ELSE SliceLoop(b, r, index + 1, lineNo, start, acc)

\* a slip of slice_bytes_by_line_range: the final unterminated line is forgotten
SliceWithoutLastLine(b, r) ==
  IF b = <<>> THEN <<>> ELSE SliceLoop(b, r, 1, 1, 1, <<>>).out

slice_bytes_by_line_range(b, r) ==
  IF b = <<>> THEN <<>>
  ELSE LET l == SliceLoop(b, r, 1, 1, 1, <<>>)
       IN IF l.returned THEN l.out
          ELSE IF l.start <= Len(b) /\ InRange(l.line_no, r)
               THEN l.out \o SubSeq(b, l.start, Len(b))
               ELSE l.out

LineRanges == {[start |-> s, end |-> e] : s \in 1..MaxRangeEnd, e \in 1..MaxRangeEnd}

\* parse_line_range only returns ranges with 1 <= start <= end (main.rs 1336-1339)
ValidLineRanges == {r \in LineRanges : r.start >= 1 /\ r.end >= r.start}


\* The bytes of b that belong to a line whose 1-based number is in r, in order:
\* byte i lies on line 1 + (number of '\n' before i).
LineNoOfByte(b, i) == 1 + CountOf(SubSeq(b, 1, i - 1), "\n")

RECURSIVE BytesOfLinesFrom(_, _, _)
BytesOfLinesFrom(b, r, i) ==
  IF i > Len(b) THEN <<>>
  ELSE (IF InRange(LineNoOfByte(b, i), r) THEN <<b[i]>> ELSE <<>>)
       \o BytesOfLinesFrom(b, r, i + 1)

BytesOfLines(b, r) == BytesOfLinesFrom(b, r, 1)

-----------------------------------------------------------------------------
(* squeeze_blank_lines_bytes, main.rs 1217-1261.  Indices are 1-based here:  *)
(* start is the index of the first byte of the current line.                 *)

\* a slip of ContentEnd: a '\r' before the '\n' counts as content
ContentEndKeepsCr(b, start, e) == e

\* main.rs 1227-1230 and 1246-1249: e is the index just past the line's content
\* before a trailing '\r' is set aside
ContentEnd(b, start, e) ==
  IF e > start /\ b[e - 1] = "\r" THEN e - 1 ELSE e

\* a slip of SqueezeLine: blank_count starts over when a blank line is dropped
SqueezeLineResetsOnDrop(st, line, is_blank, lim) ==
  IF is_blank
  THEN IF st.blank_count + 1 <= lim
       THEN [out |-> st.out \o line, blank_count |-> st.blank_count + 1]
       ELSE [out |-> st.out, blank_count |-> 0]
  ELSE [out |-> st.out \o line, blank_count |-> 0]

\* a slip of SqueezeLine: blank_count is not set back to 0 by a non-blank line
SqueezeLineKeepsCount(st, line, is_blank, lim) ==
  IF is_blank
  THEN [out |-> IF st.blank_count + 1 <= lim THEN st.out \o line ELSE st.out,
        blank_count |-> st.blank_count + 1]
  ELSE [out |-> st.out \o line, blank_count |-> st.blank_count]

\* main.rs 1232-1239: a terminated line is counted, and kept or dropped
SqueezeLine(st, line, is_blank, lim) ==
  IF is_blank
  THEN [out |-> IF st.blank_count + 1 <= lim THEN st.out \o line ELSE st.out,
        blank_count |-> st.blank_count + 1]
  ELSE [out |-> st.out \o line, blank_count |-> 0]

\* main.rs 1224-1242: the for loop; the result is (out, blank_count, start)
RECURSIVE SqueezeLoop(_, _, _, _, _)
SqueezeLoop(b, lim, index, start, st) ==
  IF index > Len(b) THEN [out |-> st.out, blank_count |-> st.blank_count, start |-> start]
  ELSE IF b[index] = "\n"
  THEN LET line == SubSeq(b, start, index)
           is_blank == ContentEnd(b, start, index) = start
       IN SqueezeLoop(b, lim, index + 1, index + 1, SqueezeLine(st, line, is_blank, lim))
  ELSE SqueezeLoop(b, lim, index + 1, start, st)

squeeze_blank_lines_bytes(b, lim) ==
  IF b = <<>> THEN <<>>
  ELSE LET l == SqueezeLoop(b, lim, 1, 1, [out |-> <<>>, blank_count |-> 0])
       IN IF l.start <= Len(b)
          THEN \* main.rs 1244-1259: the final unterminated line
               LET line == SubSeq(b, l.start, Len(b))
                   is_blank == ContentEnd(b, l.start, Len(b) + 1) = l.start
               IN IF is_blank /\ ~(l.blank_count + 1 <= lim) THEN l.out
                  ELSE l.out \o line
          ELSE l.out

\* --squeeze-limit is a usize (main.rs 147)
Limits == 0..MaxLimit

-----------------------------------------------------------------------------
(* parse_unified_diff, git.rs 48-122.                                        *)
(* A diff line is a sequence of tokens; its first token is the longest of    *)
(* the prefixes the parser tests ("@@", "---", "+++", "\", " ", "-", "+"),   *)
(* or an ordinary word.                                                      *)

HunkHeader3 == <<"@@", " ", "-", "3", ",", "2", " ", "+", "3", ",", "3", " ", "@@">>
\* git omits a line count of 1: "@@ -2 +2 @@"
HunkHeaderShort == <<"@@", " ", "-", "2", " ", "+", "2", " ", "@@">>
\* the hunk of a deletion at the top of the file: new start 0
HunkHeaderZero == <<"@@", " ", "-", "1", ",", "2", " ", "+", "0", ",", "0", " ", "@@">>
RemovedLine == <<"-", "old">>
AddedLine == <<"+", "new">>
ContextLine == <<" ", "ctx">>
OldFileLine == <<"---", " ", "a/f">>
NewFileLine == <<"+++", " ", "b/f">>
NoNewlineLine == <<"\\", " ", "No", " ", "newline">>
OtherLine == <<"diff", " ", "--git">>
BlankLine == <<>>

DiffLineForms == {HunkHeader3, HunkHeaderShort, HunkHeaderZero, RemovedLine, AddedLine, ContextLine,
                  OldFileLine, NewFileLine, NoNewlineLine, OtherLine, BlankLine}

\* the first character of a token
FirstChar(tok) ==
  CASE tok = "@@" -> "@"
    [] tok = "---" -> "-"
    [] tok = "+++" -> "+"
    [] OTHER -> tok

StartsWithChar(line, c) == line /= <<>> /\ FirstChar(Head(line)) = c
StartsWith(line, prefix) == line /= <<>> /\ Head(line) = prefix

\* str::parse::<usize> on one field; an Option is <<v>> for Some(v), <<>> for None
DecimalValue == [t \in {"0", "1", "2", "3", "4"} |->
                   CASE t = "0" -> 0 [] t = "1" -> 1 [] t = "2" -> 2 [] t = "3" -> 3 [] t = "4" -> 4]

ParseUsize(field) ==
  IF Len(field) = 1 /\ field[1] \in DOMAIN DecimalValue THEN <<DecimalValue[field[1]]>> ELSE <<>>

\* split a token sequence at every token sep, keeping empty pieces (str::split)
RECURSIVE SplitOn(_, _, _)
SplitOn(s, sep, cur) ==
  IF s = <<>> THEN <<cur>>
  ELSE IF Head(s) = sep THEN <<cur>> \o SplitOn(Tail(s), sep, <<>>)
       ELSE SplitOn(Tail(s), sep, Append(cur, Head(s)))

\* str::split_whitespace: the non-empty pieces between runs of whitespace
SplitWhitespace(line) == SelectSeq(SplitOn(line, " ", <<>>), LAMBDA p : p /= <<>>)

\* parse_diff_header, git.rs 130-157: Some(new_start), or None
parse_diff_header(line) ==
  LET parts == SplitWhitespace(line)
  IN IF Len(parts) < 4 THEN <<>>
     ELSE IF ~StartsWith(parts[2], "-") THEN <<>>
     ELSE LET old_parts == SplitOn(Tail(parts[2]), ",", <<>>)
          IN IF Len(old_parts) < 2 THEN <<>>
             ELSE IF ParseUsize(old_parts[1]) = <<>> THEN <<>>
             ELSE IF ~StartsWith(parts[3], "+") THEN <<>>
             ELSE LET new_parts == SplitOn(Tail(parts[3]), ",", <<>>)
                  IN IF Len(new_parts) < 2 THEN <<>>
                     ELSE ParseUsize(new_parts[1])

MaxKey(f) == CHOOSE k \in DOMAIN f : \A j \in DOMAIN f : j <= k

\* git.rs 115-119: each entry of the HashMap is stored at line_num - 1 (slot
\* line_num here, slots being 1-based), an entry for line 0 is skipped
RECURSIVE FillSlots(_, _, _)
FillSlots(res, chg, keys) ==
  IF keys = {} THEN res
  ELSE LET line_num == CHOOSE k \in keys : TRUE
       IN FillSlots(IF line_num > 0 THEN [res EXCEPT ![line_num] = chg[line_num]] ELSE res,
                    chg, keys \ {line_num})

\* a slip of ToChangeMap: the vector is one slot short of the highest line
ToChangeMapOneShort(chg) ==
  IF DOMAIN chg = {} THEN <<>>
  ELSE LET n == IF MaxKey(chg) > 0 THEN MaxKey(chg) - 1 ELSE 0
       IN FillSlots([i \in 1..n |-> NoneVal], chg, {k \in DOMAIN chg : k <= n})

\* git.rs 107-121: the HashMap as a dense Vec<Option<LineChange>>
ToChangeMap(chg) ==
  IF DOMAIN chg = {} THEN <<>>
  ELSE FillSlots([i \in 1..MaxKey(chg) |-> NoneVal], chg, DOMAIN chg)

\* HashMap::insert
MapInsert(f, k, v) == [x \in DOMAIN f \cup {k} |-> IF x = k THEN v ELSE f[x]]
\* HashMap::entry(k).or_insert(v)
MapOrInsert(f, k, v) == IF k \in DOMAIN f THEN f ELSE MapInsert(f, k, v)

EmptyMap == [x \in {} |-> NoneVal]

Parsing == pc = "parse" /\ next_i <= Len(diff)
ThisLine == diff[next_i]

\* git.rs 56-58
DiffBlank ==
  /\ Parsing /\ ThisLine = <<>>
  /\ next_i' = next_i + 1
  /\ UNCHANGED <<pc, diff, changes, current_new_line, change_map, pureVars, streamVars>>

\* a slip of DiffHeader: a header that does not parse starts the cursor over
DiffHeaderStartsOver ==
  /\ Parsing /\ StartsWith(ThisLine, "@@")
  /\ current_new_line' = IF parse_diff_header(ThisLine) /= <<>>
                         THEN parse_diff_header(ThisLine)[1] ELSE 1
  /\ next_i' = next_i + 1
  /\ UNCHANGED <<pc, diff, changes, change_map, pureVars, streamVars>>

\* git.rs 61-66
DiffHeader ==
  /\ Parsing /\ StartsWith(ThisLine, "@@")
  /\ current_new_line' = IF parse_diff_header(ThisLine) /= <<>>
                         THEN parse_diff_header(ThisLine)[1] ELSE current_new_line
  /\ next_i' = next_i + 1
  /\ UNCHANGED <<pc, diff, changes, change_map, pureVars, streamVars>>

\* git.rs 69-74
DiffMeta ==
  /\ Parsing
  /\ StartsWith(ThisLine, "---") \/ StartsWith(ThisLine, "+++") \/ StartsWith(ThisLine, "\\")
  /\ next_i' = next_i + 1
  /\ UNCHANGED <<pc, diff, changes, current_new_line, change_map, pureVars, streamVars>>

\* the lines that reach the match on the first character, git.rs 76
Matched == Parsing /\ ThisLine /= <<>>
           /\ Head(ThisLine) \notin {"@@", "---", "+++", "\\"}

\* git.rs 77-80
DiffContext ==
  /\ Matched /\ StartsWithChar(ThisLine, " ")
  /\ current_new_line' = current_new_line + 1
  /\ next_i' = next_i + 1
  /\ UNCHANGED <<pc, diff, changes, change_map, pureVars, streamVars>>

\* a slip of DiffRemoval: a removal that no '+' line follows is recorded
DiffRemovalRecorded ==
  /\ Matched /\ StartsWithChar(ThisLine, "-")
  /\ IF next_i + 1 <= Len(diff) /\ StartsWithChar(diff[next_i + 1], "+")
     THEN /\ changes' = MapInsert(changes, current_new_line, "Modified")
          /\ next_i' = next_i + 2
     ELSE /\ changes' = MapInsert(changes, current_new_line, "Removed")
          /\ next_i' = next_i + 1
  /\ UNCHANGED <<pc, diff, current_new_line, change_map, pureVars, streamVars>>

\* git.rs 81-95: a '-' line followed by a '+' line is a modification, and the
\* '+' line is consumed; the cursor is not advanced
DiffRemoval ==
  /\ Matched /\ StartsWithChar(ThisLine, "-")
  /\ IF next_i + 1 <= Len(diff) /\ StartsWithChar(diff[next_i + 1], "+")
     THEN /\ changes' = MapInsert(changes, current_new_line, "Modified")
          /\ next_i' = next_i + 2
     ELSE /\ changes' = changes
          /\ next_i' = next_i + 1
  /\ UNCHANGED <<pc, diff, current_new_line, change_map, pureVars, streamVars>>

\* a slip of DiffAdded: HashMap::insert in place of entry().or_insert()
DiffAddedOverwrites ==
  /\ Matched /\ StartsWithChar(ThisLine, "+")
  /\ changes' = MapInsert(changes, current_new_line, "Added")
  /\ current_new_line' = current_new_line + 1
  /\ next_i' = next_i + 1
  /\ UNCHANGED <<pc, diff, change_map, pureVars, streamVars>>

\* git.rs 96-100
DiffAdded ==
  /\ Matched /\ StartsWithChar(ThisLine, "+")
  /\ changes' = MapOrInsert(changes, current_new_line, "Added")
  /\ current_new_line' = current_new_line + 1
  /\ next_i' = next_i + 1
  /\ UNCHANGED <<pc, diff, change_map, pureVars, streamVars>>

\* git.rs 101-103
DiffOther ==
  /\ Matched
  /\ ~StartsWithChar(ThisLine, " ") /\ ~StartsWithChar(ThisLine, "-")
  /\ ~StartsWithChar(ThisLine, "+")
  /\ current_new_line' = current_new_line + 1
  /\ next_i' = next_i + 1
  /\ UNCHANGED <<pc, diff, changes, change_map, pureVars, streamVars>>

\* git.rs 107-121
DiffFinish ==
  /\ pc = "parse" /\ next_i > Len(diff)
  /\ change_map' = ToChangeMap(changes)
  /\ pc' = "parsed"
  /\ UNCHANGED <<diff, next_i, changes, current_new_line, pureVars, streamVars>>


-----------------------------------------------------------------------------
(* Text, rendered items and their size in bytes *)

\* " " a space, "\r", "\n", and "X": a run of BlockBytes ordinary characters
Symbols == {" ", "\r", "\n", "X"}

\* UTF-8 length of one output item
Weight(item) ==
  CASE item = "X" -> BlockBytes
    [] item \in {"MIDDOT"} -> 2
    [] item \in {"CRSYM", "LFSYM", "GRID"} -> 3
    [] item \in {"ESC[0m"} -> 4
    [] item \in {"ESC[dim", "ESC[Added", "ESC[Modified", "ESC[Removed", "ESC[keyword"} -> 19
    [] OTHER -> 1

RECURSIVE ByteLen(_)
ByteLen(s) == IF s = <<>> THEN 0 ELSE Weight(Head(s)) + ByteLen(Tail(s))

EscapeTokens == {"ESC[0m", "ESC[dim", "ESC[Added", "ESC[Modified", "ESC[Removed", "ESC[keyword"}

\* what is left of rendered output when the renderer's escape tokens are removed
Visible(s) == SelectSeq(s, LAMBDA x : x \notin EscapeTokens)

-----------------------------------------------------------------------------
(* syntastica's TerminalRenderer::new(None), as main.rs uses it *)

RendererHead == <<>>
RendererTail == <<>>
RendererNewline == <<"\n">>
RendererEscape(t) == t
RendererUnstyled(t) == t
RendererStyled(t, style) == <<"ESC[" \o style>> \o t \o <<"ESC[0m">>

\* THEME_KEYS, by highlight id (0-based in the code)
THEME_KEYS == <<"keyword", "none">>
HighlightIds == {0, 1}

\* theme.find_style / theme.get: Some(style) or None
ThemeFindStyle(key) == IF key = "keyword" THEN <<"keyword">> ELSE <<>>

\* a slip of current_style_key: the innermost scope whose key is not "none"
\* is taken, so that an outer scope styles what the innermost one leaves alone
RECURSIVE CurrentStyleKeyOfOuter(_)
CurrentStyleKeyOfOuter(stack) ==
  IF stack = <<>> THEN <<>>
  ELSE IF Last(stack) + 1 \in DOMAIN THEME_KEYS /\ THEME_KEYS[Last(stack) + 1] /= "none"
       THEN <<THEME_KEYS[Last(stack) + 1]>>
       ELSE CurrentStyleKeyOfOuter(SubSeq(stack, 1, Len(stack) - 1))

\* main.rs 808-813
current_style_key(stack) ==
  IF stack = <<>> THEN <<>>
  ELSE IF Last(stack) + 1 \notin DOMAIN THEME_KEYS THEN <<>>
  ELSE IF THEME_KEYS[Last(stack) + 1] = "none" THEN <<>>
  ELSE <<THEME_KEYS[Last(stack) + 1]>>

-----------------------------------------------------------------------------
(* show_unprintable, unprintable.rs 42-139 *)

LfMarker(char_style) == IF char_style = "Unicode" THEN "LFSYM" ELSE "$"

ShowChar(c, char_style) ==
  CASE c = " " -> <<"MIDDOT">>
    [] c = "\n" -> <<LfMarker(char_style), "\n">>
    [] c = "\r" -> IF char_style = "Unicode" THEN <<"CRSYM">> ELSE <<"^", "M">>
    [] OTHER -> <<c>>

RECURSIVE show_unprintable(_, _)
show_unprintable(t, char_style) ==
  IF t = <<>> THEN <<>>
  ELSE ShowChar(Head(t), char_style) \o show_unprintable(Tail(t), char_style)

-----------------------------------------------------------------------------
(* str::split_inclusive('\n') and str::lines *)

RECURSIVE SplitInclusive(_, _)
SplitInclusive(s, cur) ==
  IF s = <<>> THEN (IF cur = <<>> THEN <<>> ELSE <<cur>>)
  ELSE IF Head(s) = "\n" THEN <<Append(cur, "\n")>> \o SplitInclusive(Tail(s), <<>>)
       ELSE SplitInclusive(Tail(s), Append(cur, Head(s)))

\* a line loses its "\n", and then a "\r" that stood before that "\n"
StripLineEnding(chunk) ==
  IF chunk /= <<>> /\ Last(chunk) = "\n"
  THEN LET l == SubSeq(chunk, 1, Len(chunk) - 1)
       IN IF l /= <<>> /\ Last(l) = "\r" THEN SubSeq(l, 1, Len(l) - 1) ELSE l
  ELSE chunk

\* a slip of RustLines: the empty piece after a final "\n" is kept as a line
RustLinesKeepsLastEmpty(s) ==
  LET pieces == SplitOn(s, "\n", <<>>)
  IN [i \in 1..Len(pieces) |->
        IF i < Len(pieces) /\ pieces[i] /= <<>> /\ Last(pieces[i]) = "\r"
        THEN SubSeq(pieces[i], 1, Len(pieces[i]) - 1) ELSE pieces[i]]

RustLines(s) ==
  LET chunks == SplitInclusive(s, <<>>)
  IN [i \in 1..Len(chunks) |-> StripLineEnding(chunks[i])]

-----------------------------------------------------------------------------
(* Line numbers: format!("{line_no:>width$}") and line_number_width *)

DigitChars == <<"0", "1", "2", "3", "4", "5", "6", "7", "8", "9">>

RECURSIVE Digits(_)
Digits(n) == IF n < 10 THEN <<DigitChars[n + 1]>>
             ELSE Append(Digits(n \div 10), DigitChars[(n % 10) + 1])

RECURSIVE Spaces(_)
Spaces(n) == IF n <= 0 THEN <<>> ELSE <<" ">> \o Spaces(n - 1)

\* a slip of FormatRight: {:<width$}, the padding on the right
FormatLeft(n, width) == Digits(n) \o Spaces(width - Len(Digits(n)))

\* {:>width$}: padded with spaces on the left, never truncated
FormatRight(n, width) == Spaces(width - Len(Digits(n))) \o Digits(n)

\* main.rs 1179-1182
line_number_width(n) == IF Len(Digits(n)) = 0 THEN 1 ELSE Len(Digits(n))

\* main.rs 856-863
highlight_line_count(t) == CountOf(t, "\n") + 1

\* main.rs 1167-1177
count_lines_bytes(b) ==
  IF b = <<>> THEN 0
  ELSE IF Last(b) = "\n" THEN CountOf(b, "\n") ELSE CountOf(b, "\n") + 1

-----------------------------------------------------------------------------
(* render_decorated_line, decorations.rs 59-121 *)

\* a slip of ChangeSymbol: the symbols of Added and Modified exchanged
ChangeSymbolSwapped(line_change) ==
  CASE line_change = "Added" -> "~"
    [] line_change = "Modified" -> "+"
    [] line_change = "Removed" -> "-"
    [] OTHER -> " "

\* decorations.rs 85-90
ChangeSymbol(line_change) ==
  CASE line_change = "Added" -> "+"
    [] line_change = "Modified" -> "~"
    [] line_change = "Removed" -> "-"
    [] OTHER -> " "

ChangeStyle(line_change) == IF line_change = NoneVal THEN "dim" ELSE line_change

RECURSIVE RenderContent(_)
RenderContent(content) ==
  IF content = <<>> THEN <<>>
  ELSE LET frag == Head(content)
           escaped == RendererEscape(frag.text)
           style == IF frag.key = <<>> THEN <<>> ELSE ThemeFindStyle(frag.key[1])
       IN (IF style /= <<>> THEN RendererStyled(escaped, style[1])
           ELSE RendererUnstyled(escaped))
          \o RenderContent(Tail(content))

DecorationPrefix(lineNo, config, line_change, width) ==
  (IF config.show_numbers
   THEN RendererStyled(RendererEscape(FormatRight(lineNo, width)), "dim") ELSE <<>>)
  \o (IF config.show_changes
      THEN RendererStyled(RendererEscape(<<" ">>), "dim")
           \o RendererStyled(RendererEscape(<<ChangeSymbol(line_change)>>),
                             ChangeStyle(line_change))
      ELSE <<>>)
  \o (IF config.show_numbers \/ config.show_changes
      THEN RendererStyled(RendererEscape(<<" ">>), "dim") ELSE <<>>)
  \o (IF config.show_numbers \/ config.show_changes
      THEN RendererStyled(RendererEscape(<<"GRID", " ">>), "dim") ELSE <<>>)

render_decorated_line(content, lineNo, config, line_change, width) ==
  DecorationPrefix(lineNo, config, line_change, width) \o RenderContent(content)

-----------------------------------------------------------------------------
(* number_plain_text and the fallback of write_rendered_text *)

\* main.rs 1125-1134: one "{:>width$}  " prefix and the chunk, per chunk
RECURSIVE NumberChunks(_, _, _, _, _)
NumberChunks(chunks, lineNo, width, show_all, char_style) ==
  IF chunks = <<>> THEN <<>>
  ELSE FormatRight(lineNo, width) \o <<" ", " ">>
       \o (IF show_all THEN show_unprintable(Head(chunks), char_style) ELSE Head(chunks))
       \o NumberChunks(Tail(chunks), lineNo + 1, width, show_all, char_style)

\* main.rs 1114-1136
number_plain_text(t, line_number_start, show_all, char_style) ==
  IF count_lines_bytes(t) = 0 THEN <<>>
  ELSE NumberChunks(SplitInclusive(t, <<>>), line_number_start,
                    line_number_width(line_number_start + (count_lines_bytes(t) - 1)),
                    show_all, char_style)

\* main.rs 710-716 (and 688-694): the unstyled rendering of the whole text
PlainRender(t, c) ==
  IF c.show_numbers THEN number_plain_text(t, c.line_number_start, c.show_all, c.char_style)
  ELSE IF c.show_all THEN show_unprintable(t, c.char_style)
  ELSE t

-----------------------------------------------------------------------------
(* StreamBuffer, main.rs 248-291.  buf is the accumulator and sink what has  *)
(* been written to `out`.  The other fields record the history: pushed is    *)
(* the concatenation of all fragments pushed, frag_ends the length of pushed *)
(* after each push, flush_ends the length of sink after each flush, and      *)
(* after_push the largest size buf had when a push returned.                 *)

NewStreamBuffer == [buf |-> <<>>, sink |-> <<>>, pushed |-> <<>>,
                    frag_ends |-> {0}, flush_ends |-> {}, after_push |-> 0]

\* a slip of Flush: the accumulator is cleared, but never written to the sink
FlushDropsBuffer(o) ==
  IF o.buf /= <<>>
  THEN [o EXCEPT !.buf = <<>>, !.flush_ends = @ \cup {Len(o.sink)}]
  ELSE o

\* a slip of Flush: the accumulator is written to the sink, but not cleared
FlushKeepsBuffer(o) ==
  IF o.buf /= <<>>
  THEN [o EXCEPT !.sink = o.sink \o o.buf,
                 !.flush_ends = @ \cup {Len(o.sink) + Len(o.buf)}]
  ELSE o

\* main.rs 284-290
Flush(o) ==
  IF o.buf /= <<>>
  THEN [o EXCEPT !.sink = o.sink \o o.buf, !.buf = <<>>,
                 !.flush_ends = @ \cup {Len(o.sink) + Len(o.buf)}]
  ELSE o

\* main.rs 270-275
FlushIfAtLeast(o, n) == IF ByteLen(o.buf) >= n THEN Flush(o) ELSE o

\* a slip of flush_if_full: the high-water mark is never acted on
FlushIfFullNever(o) == o

\* main.rs 277-282
FlushIfFull(o) == IF ByteLen(o.buf) >= STREAM_OUTPUT_BUFFER_BYTES THEN Flush(o) ELSE o

Max(a, b) == IF a >= b THEN a ELSE b

\* main.rs 265-268
Push(o, s) ==
  LET appended == [o EXCEPT !.buf = o.buf \o s, !.pushed = o.pushed \o s,
                            !.frag_ends = @ \cup {Len(o.pushed) + Len(s)}]
      after == FlushIfFull(appended)
  IN [after EXCEPT !.after_push = Max(@, ByteLen(after.buf))]

-----------------------------------------------------------------------------
(* Values of the variables an operation does not use *)

IdleSlice == bytes = <<>> /\ range = [start |-> 1, end |-> 1]
             /\ sliced = <<>> /\ resliced = <<>>

IdleSqueeze == limit = 0 /\ squeezed = <<>> /\ resqueezed = <<>>

IdleRow ==
  /\ call = [content |-> <<>>, line_no |-> 1, line_change |-> NoneVal, line_number_width |-> 1,
            config |-> [show_numbers |-> FALSE, show_changes |-> FALSE]]
  /\ output = <<>>

IdleDiff == diff = <<>> /\ next_i = 1 /\ changes = EmptyMap
            /\ current_new_line = 1 /\ change_map = <<>>

-----------------------------------------------------------------------------
(* The slicer applied to every small buffer and range, then to its own result *)

Slice ==
  /\ pc = "slice"
  /\ sliced' = slice_bytes_by_line_range(bytes, range)
  /\ pc' = "sliced"
  /\ UNCHANGED <<bytes, range, resliced, squeezeVars, rowVars, diffVars, streamVars>>

\* one call of render_decorated_line
RenderRow ==
  /\ pc = "row"
  /\ output' = render_decorated_line(call.content, call.line_no, call.config,
                                       call.line_change, call.line_number_width)
  /\ pc' = "rendered"
  /\ UNCHANGED <<call, sliceVars, squeezeVars, diffVars, streamVars>>

\* emit_bytes, main.rs 490-491, and the compaction of its own result
Squeeze ==
  /\ pc = "squeeze"
  /\ squeezed' = squeeze_blank_lines_bytes(bytes, limit)
  /\ pc' = "squeezed"
  /\ UNCHANGED <<sliceVars, limit, resqueezed, rowVars, diffVars, streamVars>>

Resqueeze ==
  /\ pc = "squeezed"
  /\ resqueezed' = squeeze_blank_lines_bytes(squeezed, limit)
  /\ pc' = "resqueezed"
  /\ UNCHANGED <<sliceVars, limit, squeezed, rowVars, diffVars, streamVars>>

Reslice ==
  /\ pc = "sliced"
  /\ resliced' = slice_bytes_by_line_range(sliced, range)
  /\ pc' = "resliced"
  /\ UNCHANGED <<bytes, range, sliced, squeezeVars, rowVars, diffVars, streamVars>>


-----------------------------------------------------------------------------
(* write_rendered_text, write_highlighted_text_stream and the two streaming  *)
(* loops, main.rs 675-1086.  The highlighter is an iterator that yields, in  *)
(* any order it likes, HighlightStart(h), HighlightEnd, Source spans that    *)
(* partition the text from left to right, or an error.                       *)

HasDecorations(c) == c.show_numbers \/ c.show_changes

\* main.rs 972-981
has_git_changes == \E i \in DOMAIN cfg.git_changes : cfg.git_changes[i] /= NoneVal

\* a slip of effective_config: the requested configuration is used as it is
EffectiveConfigAsRequested == [show_numbers |-> cfg.show_numbers,
                               show_changes |-> cfg.show_changes]

\* main.rs 974-981
effective_config == [show_numbers |-> cfg.show_numbers,
                     show_changes |-> cfg.show_changes /\ has_git_changes]

\* a slip of width: the lines are counted as count_lines_bytes counts them,
\* without the row after a final newline
WidthOfLineCount ==
  line_number_width(cfg.line_number_start + (count_lines_bytes(text) - 1))

\* main.rs 984-986
width == line_number_width(cfg.line_number_start + (highlight_line_count(text) - 1))

\* a slip of the lookup: the 0-based line index is used as a 1-based one
LineChangeAtOneBased(index) ==
  IF index \in DOMAIN cfg.git_changes THEN cfg.git_changes[index] ELSE NoneVal

\* git_changes.get(line_index).copied().flatten()
LineChangeAt(index) ==
  IF index + 1 \in DOMAIN cfg.git_changes THEN cfg.git_changes[index + 1] ELSE NoneVal

IdleStream ==
  /\ text = <<>>
  /\ cfg = [show_numbers |-> FALSE, show_changes |-> FALSE, show_all |-> FALSE,
            char_style |-> "Unicode", line_number_start |-> 1, git_changes |-> <<>>]
  /\ iter_pos = 0 /\ lines = <<>> /\ ends_with_newline = FALSE
  /\ style_stack = <<>> /\ line_no = 1 /\ line_index = 0
  /\ line_has_content = FALSE /\ line_content = <<>>
  /\ flushed_visible_output = FALSE /\ out = NewStreamBuffer /\ result = "none"
  /\ hist = [rows |-> <<>>, after_line |-> 0] /\ stray_at = {}

\* main.rs 762-787: highlight() itself fails
HighlightCallFails ==
  /\ pc = "start"
  /\ result' = "Highlight"
  /\ pc' = "fallback"
  /\ UNCHANGED <<text, cfg, iter_pos, lines, ends_with_newline, style_stack,
                 line_no, line_index, line_has_content, line_content,
                 flushed_visible_output, out, hist, stray_at, pureVars, diffVars>>

\* main.rs 873-886 and 988-1004: head pushed and flushed, the locals set up
StreamStart ==
  /\ pc = "start"
  /\ out' = Flush(Push(NewStreamBuffer, RendererHead))
  /\ style_stack' = <<>>
  /\ line_no' = cfg.line_number_start
  /\ line_index' = 0
  /\ line_has_content' = FALSE
  /\ line_content' = <<>>
  /\ flushed_visible_output' = FALSE
  /\ pc' = "event"
  /\ UNCHANGED <<text, cfg, iter_pos, lines, ends_with_newline, result,
                 hist, stray_at, pureVars, diffVars>>

\* main.rs 891 and 1009: HighlightStart(h), for h among ids, nested at most depth deep
EvHighlightStart(ids, depth) ==
  /\ pc = "event" /\ Len(style_stack) < depth
  /\ \E h \in ids : style_stack' = Append(style_stack, h)
  /\ UNCHANGED <<pc, text, cfg, iter_pos, lines, ends_with_newline, line_no, line_index,
                 line_has_content, line_content, flushed_visible_output, out, result,
                 hist, stray_at, pureVars, diffVars>>

\* a slip of PopScope: a HighlightEnd on an empty stack is taken for an error
PopScopeOrFail ==
  /\ pc = "event"
  /\ IF style_stack = <<>>
     THEN /\ pc' = "fallback" /\ result' = "Highlight" /\ style_stack' = <<>>
     ELSE /\ style_stack' = SubSeq(style_stack, 1, Len(style_stack) - 1)
          /\ UNCHANGED <<pc, result>>
  /\ UNCHANGED <<text, cfg, iter_pos, lines, ends_with_newline, line_no, line_index,
                 line_has_content, line_content, flushed_visible_output, out,
                 hist, pureVars, diffVars>>

\* main.rs 892-894 and 1010-1012: Vec::pop, which does nothing on an empty stack
PopScope ==
  /\ pc = "event"
  /\ style_stack' = IF style_stack = <<>> THEN <<>>
                    ELSE SubSeq(style_stack, 1, Len(style_stack) - 1)
  /\ UNCHANGED <<pc, text, cfg, iter_pos, lines, ends_with_newline, line_no, line_index,
                 line_has_content, line_content, flushed_visible_output, out, result,
                 hist, pureVars, diffVars>>

\* HighlightEnd, as the iterator of a well-formed document yields it
EvHighlightEnd == PopScope /\ UNCHANGED stray_at

\* HighlightEnd of an event stream that may hold more ends than starts
EvStrayHighlightEnd ==
  /\ PopScope
  /\ stray_at' = IF style_stack = <<>> THEN stray_at \cup {iter_pos} ELSE stray_at

\* main.rs 895-898 and 1013-1016: the next span text[start..end]
EvSource ==
  /\ pc = "event" /\ iter_pos < Len(text)
  /\ \E end \in (iter_pos + 1)..Len(text) :
       LET source == SubSeq(text, iter_pos + 1, end)
       IN /\ ends_with_newline' = (Last(source) = "\n")
          /\ lines' = RustLines(source)
          /\ iter_pos' = end
  /\ pc' = "line"
  /\ UNCHANGED <<text, cfg, style_stack, line_no, line_index,
                 line_has_content, line_content, flushed_visible_output, out, result,
                 hist, stray_at, pureVars, diffVars>>

\* the locals of the streaming function, gone when it returns
LocalsDropped ==
  /\ iter_pos' = 0 /\ lines' = <<>> /\ ends_with_newline' = FALSE
  /\ style_stack' = <<>> /\ line_no' = 1 /\ line_index' = 0
  /\ line_has_content' = FALSE /\ line_content' = <<>>
  /\ flushed_visible_output' = FALSE

\* main.rs 889 and 1007: the event is an error; the function returns, and the
\* StreamBuffer is dropped with whatever it still holds: only what was written
\* to the sink remains
EvError ==
  /\ pc = "event"
  /\ result' = "Highlight"
  /\ out' = [NewStreamBuffer EXCEPT !.sink = out.sink]
  /\ pc' = "fallback"
  /\ LocalsDropped
  /\ UNCHANGED <<text, cfg, hist, stray_at, pureVars, diffVars>>

\* main.rs 907-924: one sub-line rendered by the plain path
PlainRendered(line) ==
  LET style_key == current_style_key(style_stack)
      style == IF style_key = <<>> THEN <<>> ELSE ThemeFindStyle(style_key[1])
  IN IF cfg.show_all
     THEN LET transformed == show_unprintable(line, cfg.char_style)
          IN IF style /= <<>> THEN RendererStyled(transformed, style[1]) ELSE transformed
     ELSE LET escaped == RendererEscape(line)
          IN IF style /= <<>> THEN RendererStyled(escaped, style[1])
             ELSE RendererUnstyled(escaped)

\* main.rs 900-945: one iteration of `while let Some(line) = lines.next()`
PlainLine ==
  /\ pc = "line" /\ ~HasDecorations(cfg) /\ lines /= <<>>
  /\ LET line == Head(lines)
         has_content == line_has_content \/ line /= <<>>
         o1 == Push(out, PlainRendered(line))
         early == ~flushed_visible_output /\ ByteLen(o1.buf) >= STREAM_OUTPUT_FLUSH_BYTES
         o2 == IF early THEN Flush(o1) ELSE o1
         flushed2 == flushed_visible_output \/ early
         newline_after == Tail(lines) /= <<>> \/ ends_with_newline
         o3 == IF cfg.show_all /\ has_content THEN Push(o2, <<LfMarker(cfg.char_style)>>) ELSE o2
         o4 == Push(o3, RendererNewline)
     IN IF newline_after
        THEN /\ out' = IF ~flushed2 THEN Flush(o4)
                       ELSE FlushIfAtLeast(o4, STREAM_OUTPUT_FLUSH_BYTES)
             /\ flushed_visible_output' = TRUE
             /\ line_has_content' = FALSE
             /\ hist' = [hist EXCEPT !.after_line = Max(@, ByteLen(out'.buf))]
        ELSE /\ out' = o2
             /\ flushed_visible_output' = flushed2
             /\ line_has_content' = has_content
             /\ hist' = hist
  /\ lines' = Tail(lines)
  /\ pc' = IF Tail(lines) = <<>> THEN "event" ELSE "line"
  /\ UNCHANGED <<text, cfg, iter_pos, ends_with_newline, style_stack, line_no,
                 line_index, line_content, result, stray_at, pureVars, diffVars>>

\* main.rs 1018-1062: one iteration of the loop of the decorated path
DecoratedLine ==
  /\ pc = "line" /\ HasDecorations(cfg) /\ lines /= <<>>
  /\ LET line == Head(lines)
         has_content == line_has_content \/ line /= <<>>
         piece == IF cfg.show_all THEN show_unprintable(line, cfg.char_style) ELSE line
         content == Append(line_content,
                           [text |-> piece, key |-> current_style_key(style_stack)])
         newline_after == Tail(lines) /= <<>> \/ ends_with_newline
         rendered == render_decorated_line(content, line_no, effective_config,
                                           LineChangeAt(line_index), width)
         o1 == Push(out, rendered)
         o2 == IF cfg.show_all /\ has_content THEN Push(o1, <<LfMarker(cfg.char_style)>>) ELSE o1
         o3 == Push(o2, RendererNewline)
     IN IF newline_after
        THEN /\ out' = IF ~flushed_visible_output THEN Flush(o3)
                       ELSE FlushIfAtLeast(o3, STREAM_OUTPUT_FLUSH_BYTES)
             /\ flushed_visible_output' = TRUE
             /\ line_content' = <<>>
             /\ line_has_content' = FALSE
             /\ line_no' = line_no + 1
             /\ line_index' = line_index + 1
             /\ hist' = [rows |-> Append(hist.rows, line_no),
                         after_line |-> Max(hist.after_line, ByteLen(out'.buf))]
        ELSE /\ line_content' = content
             /\ line_has_content' = has_content
             /\ UNCHANGED <<out, flushed_visible_output, line_no, line_index, hist>>
  /\ lines' = Tail(lines)
  /\ pc' = IF Tail(lines) = <<>> THEN "event" ELSE "line"
  /\ UNCHANGED <<text, cfg, iter_pos, ends_with_newline, style_stack, result,
                 stray_at, pureVars, diffVars>>

\* the iterator is exhausted once its spans have covered the text
IterEnds == pc = "event" /\ iter_pos = Len(text)

\* main.rs 950-956
PlainFinish ==
  /\ IterEnds /\ ~HasDecorations(cfg)
  /\ LET o1 == IF cfg.show_all /\ line_has_content
               THEN Push(out, <<LfMarker(cfg.char_style)>>) ELSE out
     IN out' = Flush(Push(o1, RendererTail))
  /\ result' = "Ok"
  /\ pc' = "done"
  /\ LocalsDropped
  /\ UNCHANGED <<text, cfg, hist, stray_at, pureVars, diffVars>>

\* main.rs 1067-1085: the final row is rendered even when it is empty
DecoratedFinish ==
  /\ IterEnds /\ HasDecorations(cfg)
  /\ LET rendered == render_decorated_line(line_content, line_no, effective_config,
                                           LineChangeAt(line_index), width)
         o1 == Push(out, rendered)
         o2 == IF cfg.show_all /\ line_has_content
               THEN Push(o1, <<LfMarker(cfg.char_style)>>) ELSE o1
     IN out' = Flush(Push(o2, RendererTail))
  /\ result' = "Ok"
  /\ pc' = "done"
  /\ LocalsDropped
  /\ hist' = [hist EXCEPT !.rows = Append(@, line_no)]
  /\ UNCHANGED <<text, cfg, stray_at, pureVars, diffVars>>

\* main.rs 709-719: after a highlighter error the whole text is rendered
\* unstyled and written to stdout
Fallback ==
  /\ pc = "fallback"
  /\ out' = [out EXCEPT !.sink = out.sink \o PlainRender(text, cfg)]
  /\ pc' = "done"
  /\ UNCHANGED <<text, cfg, iter_pos, lines, ends_with_newline, style_stack,
                 line_no, line_index, line_has_content, line_content,
                 flushed_visible_output, result, hist, stray_at, pureVars, diffVars>>

-----------------------------------------------------------------------------
(* emit_bytes, main.rs 476-591.  The byte "BAD" is one that no UTF-8 text    *)
(* holds (0xFF); "REPL" is U+FFFD.  range and limit are Options here: the    *)
(* line range of the file spec and ctx.squeeze_limit when ctx.squeeze_blank. *)
(* call is the rest of the call: the flags of ctx, whether a language is     *)
(* found for the content, and what git reports for the path.                 *)

\* String::from_utf8(bytes).is_ok()
Utf8Valid(b) == "BAD" \notin Range(b)

\* String::from_utf8_lossy
FromUtf8Lossy(b) == [i \in DOMAIN b |-> IF b[i] = "BAD" THEN "REPL" ELSE b[i]]

\* main.rs 1150-1158: the bytes, and a prefix after each '\n' that is not the last byte
RECURSIVE WriteNumberedLoop(_, _, _, _)
WriteNumberedLoop(b, index, lineNo, w) ==
  IF index > Len(b) THEN <<>>
  ELSE <<b[index]>>
       \o (IF b[index] = "\n" /\ index + 1 <= Len(b)
           THEN FormatRight(lineNo + 1, w) \o <<" ", " ">>
                \o WriteNumberedLoop(b, index + 1, lineNo + 1, w)
           ELSE WriteNumberedLoop(b, index + 1, lineNo, w))

\* a slip of the guard: the first prefix is written for an empty input too
WriteNumberedBytesPrefixForEmpty(b, line_number_start) ==
  LET count == count_lines_bytes(b)
      w == line_number_width(line_number_start + (IF count = 0 THEN 0 ELSE count - 1))
  IN FormatRight(line_number_start, w) \o <<" ", " ">>
     \o WriteNumberedLoop(b, 1, line_number_start, w)

\* main.rs 1138-1165
write_numbered_bytes(b, line_number_start) ==
  IF count_lines_bytes(b) = 0 THEN <<>>
  ELSE LET w == line_number_width(line_number_start + (count_lines_bytes(b) - 1))
       IN FormatRight(line_number_start, w) \o <<" ", " ">>
          \o WriteNumberedLoop(b, 1, line_number_start, w)

EmitBytes ==
  /\ pc = "emit"
  /\ LET after_slice == IF range /= <<>> THEN slice_bytes_by_line_range(bytes, range[1])
                        ELSE bytes
         content == IF limit /= <<>> THEN squeeze_blank_lines_bytes(after_slice, limit[1])
                    ELSE after_slice
         start_no == IF range /= <<>> THEN range[1].start ELSE 1
         config == [show_numbers |-> call.show_numbers, show_changes |-> call.show_changes,
                    show_all |-> call.show_all, char_style |-> "Unicode",
                    line_number_start |-> start_no,
                    \* main.rs 518-533
                    git_changes |-> IF call.show_changes THEN call.git_changes ELSE <<>>]
         valid == Utf8Valid(content)
         shown == show_unprintable(content, "Unicode")
         \* what the branches that do not highlight write to stdout
         direct ==
           IF ~call.use_color /\ ~HasDecorations(config)
           THEN \* main.rs 501-515
                IF call.show_all /\ valid THEN shown ELSE content
           ELSE IF call.use_color
           THEN IF valid
                THEN \* main.rs 687-697: no language
                     PlainRender(content, config)
                ELSE \* main.rs 551-564
                     IF call.show_numbers THEN write_numbered_bytes(content, start_no)
                     ELSE IF call.show_all
                     THEN show_unprintable(FromUtf8Lossy(content), "Unicode")
                     ELSE content
           ELSE \* main.rs 568-589
                IF call.show_numbers
                THEN IF call.show_all /\ valid
                     THEN number_plain_text(content, start_no, TRUE, "Unicode")
                     ELSE write_numbered_bytes(content, start_no)
                ELSE IF call.show_all /\ valid THEN shown ELSE content
     IN /\ sliced' = after_slice
        /\ squeezed' = content
        /\ cfg' = config
        /\ text' = IF call.use_color /\ valid THEN content ELSE <<>>
        /\ IF call.use_color /\ valid /\ call.has_language
           THEN \* main.rs 699-707: write_highlighted_text_stream
                pc' = "start" /\ out' = out
           ELSE pc' = "done" /\ out' = [out EXCEPT !.sink = direct]
  /\ UNCHANGED <<bytes, range, resliced, limit, resqueezed, rowVars, diffVars,
                 iter_pos, lines, ends_with_newline, style_stack, line_no, line_index,
                 line_has_content, line_content, flushed_visible_output, result,
                 stray_at, hist>>

-----------------------------------------------------------------------------
(* show_unprintable over code points, unprintable.rs 42-139: the whole match, *)
(* of which ShowChar above is the part the symbols of the renderer need.     *)
(* A string is a sequence of Unicode scalar values; a style is "Unicode" or  *)
(* "Caret".                                                                  *)

\* a slip of ShowCodePoint: the guard `<= 0x1F` of the control arm is left
\* out, so that the C1 controls are replaced as well
ShowCodePointAnyControl(c, style) ==
  CASE c = 32 -> <<183>>
    [] c = 9 -> IF style = "Unicode" THEN <<8594>> ELSE <<94, 73>>
    [] c = 10 -> IF style = "Unicode" THEN <<9226, 10>> ELSE <<36, 10>>
    [] c = 13 -> IF style = "Unicode" THEN <<8629>> ELSE <<94, 77>>
    [] c = 27 -> IF style = "Unicode" THEN <<9243>> ELSE <<94, 91>>
    [] c = 0 -> IF style = "Unicode" THEN <<9216>> ELSE <<94, 64>>
    [] c \in (1..31) \cup (127..159) -> IF style = "Unicode" THEN <<c + 9216>>
                                        ELSE <<94, (c + 64) % 256>>
    [] OTHER -> <<c>>

\* a slip of ShowCodePoint: the line-feed marker is put after the newline
ShowCodePointMarkerAfter(c, style) ==
  CASE c = 32 -> <<183>>
    [] c = 10 -> IF style = "Unicode" THEN <<10, 9226>> ELSE <<10, 36>>
    [] OTHER -> <<c>>

\* one arm of the match per line, in the order of the source; char::is_control
\* holds of 0x00-0x1F and 0x7F-0x9F
ShowCodePoint(c, style) ==
  CASE c = 32 -> <<183>>                                               \* ' ' -> '·'
    [] c = 9 -> IF style = "Unicode" THEN <<8594>> ELSE <<94, 73>>      \* '→', "^I"
    [] c = 10 -> IF style = "Unicode" THEN <<9226, 10>> ELSE <<36, 10>> \* "␊\n", "$\n"
    [] c = 13 -> IF style = "Unicode" THEN <<8629>> ELSE <<94, 77>>     \* '↵', "^M"
    [] c = 27 -> IF style = "Unicode" THEN <<9243>> ELSE <<94, 91>>     \* '␛', "^["
    [] c = 0 -> IF style = "Unicode" THEN <<9216>> ELSE <<94, 64>>      \* '␀', "^@"
    [] c \in (0..31) \cup (127..159) /\ c <= 31
         -> IF style = "Unicode" THEN <<c + 9216>> ELSE <<94, (c + 64) % 256>>
    [] c = 127 -> IF style = "Unicode" THEN <<9249>> ELSE <<94, 63>>    \* '␡', "^?"
    [] c = 8203 -> <<91, 90, 87, 83, 80, 93>>                           \* "[ZWSP]"
    [] c = 8204 -> <<91, 90, 87, 78, 74, 93>>                           \* "[ZWNJ]"
    [] c = 8205 -> <<91, 90, 87, 74, 93>>                               \* "[ZWJ]"
    [] c = 65279 -> <<91, 66, 79, 77, 93>>                              \* "[BOM]"
    [] OTHER -> <<c>>

\* unprintable.rs 43-45 and 138: the loop over text.chars()
RECURSIVE ShowCodePoints(_, _)
ShowCodePoints(t, style) ==
  IF t = <<>> THEN <<>>
  ELSE ShowCodePoint(Head(t), style) \o ShowCodePoints(Tail(t), style)

\* one call of show_unprintable
ShowUnprintable ==
  /\ pc = "show"
  /\ output' = ShowCodePoints(call.text, call.style)
  /\ pc' = "shown"
  /\ UNCHANGED <<call, sliceVars, squeezeVars, diffVars, streamVars>>

-----------------------------------------------------------------------------
(* parse_line_range, main.rs 1303-1349.  A string is a sequence of           *)
(* one-character strings; an Option is <<v>> for Some(v), <<>> for None.     *)

\* the digits of s read as a decimal number, or -1 when s holds another character
RECURSIVE DecimalOf(_, _)
DecimalOf(s, acc) ==
  IF s = <<>> THEN acc
  ELSE IF Head(s) \notin Range(DigitChars) THEN -1
  ELSE DecimalOf(Tail(s), 10 * acc
                          + (CHOOSE d \in 0..9 : DigitChars[d + 1] = Head(s)))

\* str::parse::<usize>: an optional '+', then at least one digit and only digits
ParseUsizeStr(s) ==
  LET body == IF s /= <<>> /\ Head(s) = "+" THEN Tail(s) ELSE s
  IN IF body = <<>> \/ DecimalOf(body, 0) < 0 THEN <<>> ELSE <<DecimalOf(body, 0)>>

\* a slip of split_line_range: the separator ',' is not tried
SplitLineRangeNoComma(raw) ==
  LET At(sep) == {i \in DOMAIN raw : raw[i] = sep}
      First(sep) == CHOOSE i \in At(sep) : \A j \in At(sep) : i <= j
      SplitOnce(sep) == <<SubSeq(raw, 1, First(sep) - 1),
                          SubSeq(raw, First(sep) + 1, Len(raw))>>
  IN IF At("-") /= {} THEN <<SplitOnce("-")>>
     ELSE IF At(":") /= {} THEN <<SplitOnce(":")>>
     ELSE <<>>

\* main.rs 1342-1349: str::split_once at the first separator found, '-' tried
\* first, then ':', then ','
split_line_range(raw) ==
  LET At(sep) == {i \in DOMAIN raw : raw[i] = sep}
      First(sep) == CHOOSE i \in At(sep) : \A j \in At(sep) : i <= j
      SplitOnce(sep) == <<SubSeq(raw, 1, First(sep) - 1),
                          SubSeq(raw, First(sep) + 1, Len(raw))>>
  IN IF At("-") /= {} THEN <<SplitOnce("-")>>
     ELSE IF At(":") /= {} THEN <<SplitOnce(":")>>
     ELSE IF At(",") /= {} THEN <<SplitOnce(",")>>
     ELSE <<>>

\* main.rs 1303-1340
parse_line_range(raw) ==
  LET \* str::trim
      Trim(x) == LET kept == {i \in DOMAIN x : x[i] /= " "}
                 IN IF kept = {} THEN <<>>
                    ELSE SubSeq(x, CHOOSE i \in kept : \A j \in kept : i <= j,
                                   CHOOSE i \in kept : \A j \in kept : i >= j)
      \* strip_prefix('L').or_else(strip_prefix('l')).unwrap_or(x)
      StripL(x) == IF x /= <<>> /\ Head(x) \in {"L", "l"} THEN Tail(x) ELSE x
      stripped == StripL(Trim(raw))
      parts == split_line_range(stripped)
  IN IF stripped = <<>> THEN <<>>
     ELSE IF parts = <<>>
     THEN LET line == ParseUsizeStr(stripped)
          IN IF line = <<>> \/ line = <<0>> THEN <<>>
             ELSE <<[start |-> line[1], end |-> line[1]]>>
     ELSE IF parts[1][1] = <<>> \/ parts[1][2] = <<>> THEN <<>>
     ELSE LET start == ParseUsizeStr(Trim(parts[1][1]))
              end == ParseUsizeStr(StripL(Trim(parts[1][2])))
          IN IF start = <<>> \/ end = <<>> THEN <<>>
             ELSE IF start[1] = 0 \/ end[1] = 0 \/ end[1] < start[1] THEN <<>>
             ELSE <<[start |-> start[1], end |-> end[1]]>>

\* one call of parse_line_range (from parse_line_range_arg or parse_line_range_suffix)
ParseLineRange ==
  /\ pc = "range"
  /\ output' = parse_line_range(call.raw)
  /\ pc' = "ranged"
  /\ UNCHANGED <<call, sliceVars, squeezeVars, diffVars, streamVars>>

-----------------------------------------------------------------------------
(* The specifications *)

\* ChangeMaps parse_unified_diff can return: Added or Modified slots, the last one set
GitChangeMaps == {<<"Added">>, <<NoneVal, "Modified">>}

StartLines == {1, 9}

\* the highlight ids the event streams of Spec use: "keyword", which the theme styles
StreamHighlightIds == {0}

Configs ==
  {c \in [show_numbers : BOOLEAN, show_changes : BOOLEAN, show_all : BOOLEAN,
          char_style : {"Unicode"}, line_number_start : StartLines,
          git_changes : GitChangeMaps \cup {<<>>}] :
     \* emit_bytes fetches the changes only when show_changes is set (main.rs 518-533)
     /\ ~c.show_changes => c.git_changes = <<>>
     \* line_number_start is read only to number lines
     /\ ~c.show_numbers => c.line_number_start = 1}

Init ==
  /\ pc = "start"
  /\ text \in SeqsUpTo(Symbols, MaxTextLen)
  /\ cfg \in Configs
  /\ iter_pos = 0 /\ lines = <<>> /\ ends_with_newline = FALSE
  /\ style_stack = <<>> /\ line_no = 1 /\ line_index = 0
  /\ line_has_content = FALSE /\ line_content = <<>>
  /\ flushed_visible_output = FALSE /\ out = NewStreamBuffer /\ result = "none"
  /\ hist = [rows |-> <<>>, after_line |-> 0] /\ stray_at = {}
  /\ IdleSlice /\ IdleSqueeze /\ IdleRow /\ IdleDiff

Next ==
  \/ HighlightCallFails \/ StreamStart
  \/ EvHighlightStart(StreamHighlightIds, MaxScopeDepth)
  \/ EvHighlightEnd \/ EvSource \/ EvError
  \/ PlainLine \/ DecoratedLine \/ PlainFinish \/ DecoratedFinish
  \/ Fallback

Spec == Init /\ [][Next]_vars

\* event streams with more HighlightEnd than HighlightStart events, over
\* short texts, without and with line numbers
StrayConfigs == {c \in Configs : ~c.show_changes /\ ~c.show_all /\ c.line_number_start = 1}

InitScopes ==
  /\ pc = "start"
  /\ text \in SeqsUpTo({" ", "\n"}, MaxStrayTextLen)
  /\ cfg \in StrayConfigs
  /\ iter_pos = 0 /\ lines = <<>> /\ ends_with_newline = FALSE
  /\ style_stack = <<>> /\ line_no = 1 /\ line_index = 0
  /\ line_has_content = FALSE /\ line_content = <<>>
  /\ flushed_visible_output = FALSE /\ out = NewStreamBuffer /\ result = "none"
  /\ hist = [rows |-> <<>>, after_line |-> 0] /\ stray_at = {}
  /\ IdleSlice /\ IdleSqueeze /\ IdleRow /\ IdleDiff

NextScopes ==
  \/ HighlightCallFails \/ StreamStart
  \/ EvHighlightStart(StreamHighlightIds, MaxScopeDepth)
  \/ EvStrayHighlightEnd \/ EvSource \/ EvError
  \/ PlainLine \/ DecoratedLine \/ PlainFinish \/ DecoratedFinish
  \/ Fallback

SpecScopes == InitScopes /\ [][NextScopes]_vars

\* event streams whose scopes nest, over every highlight id of THEME_KEYS
InitStyles == InitScopes

NextStyles ==
  \/ HighlightCallFails \/ StreamStart
  \/ EvHighlightStart(HighlightIds, MaxStyleDepth)
  \/ EvHighlightEnd \/ EvSource \/ EvError
  \/ PlainLine \/ DecoratedLine \/ PlainFinish \/ DecoratedFinish
  \/ Fallback

SpecStyles == InitStyles /\ [][NextStyles]_vars

\* emit_bytes called on every short content, with and without a line range
\* and blank-line compaction, under every combination of the flags
InitEmit ==
  /\ pc = "emit"
  /\ bytes \in SeqsUpTo({" ", "\n", "BAD"}, MaxEmitBytes)
  /\ range \in {<<>>, <<[start |-> 2, end |-> 3]>>}
  /\ limit \in {<<>>, <<1>>}
  /\ call \in {c \in [use_color : BOOLEAN, show_numbers : BOOLEAN, show_changes : BOOLEAN,
                      show_all : BOOLEAN, has_language : BOOLEAN,
                      git_changes : GitChangeMaps \cup {<<>>}] :
                 /\ ~c.show_changes => c.git_changes = <<>>
                 /\ ~c.use_color => ~c.has_language}
  /\ sliced = <<>> /\ resliced = <<>> /\ squeezed = <<>> /\ resqueezed = <<>>
  /\ output = <<>>
  /\ IdleDiff /\ IdleStream

NextEmit ==
  \/ EmitBytes
  \/ HighlightCallFails \/ StreamStart
  \/ EvHighlightStart(StreamHighlightIds, MaxScopeDepth)
  \/ EvHighlightEnd \/ EvSource \/ EvError
  \/ PlainLine \/ DecoratedLine \/ PlainFinish \/ DecoratedFinish
  \/ Fallback

SpecEmit == InitEmit /\ [][NextEmit]_vars

\* show_unprintable called in both styles on every short string over: NUL,
\* 0x01, tab, newline, CR, ESC, 0x1F, space, '$', 'A', DEL, the C1 control
\* 0x80, 'é', ZWSP, ZWNJ, ZWJ, '␊' and the BOM
InitShow ==
  /\ pc = "show"
  /\ call \in [text : SeqsUpTo({0, 1, 9, 10, 13, 27, 31, 32, 36, 65, 127, 128, 233,
                                8203, 8204, 8205, 9226, 65279}, MaxChars),
               style : {"Unicode", "Caret"}]
  /\ output = <<>>
  /\ IdleSlice /\ IdleSqueeze /\ IdleDiff /\ IdleStream

SpecShow == InitShow /\ [][ShowUnprintable]_vars

\* parse_line_range called on every short string of digits, separators,
\* blanks, signs and the 'L' of a "#L" suffix
InitRange ==
  /\ pc = "range"
  /\ call \in [raw : SeqsUpTo({"0", "1", "2", "-", ":", ",", " ", "+", "L"}, MaxRangeChars)]
  /\ output = <<>>
  /\ IdleSlice /\ IdleSqueeze /\ IdleDiff /\ IdleStream

SpecRange == InitRange /\ [][ParseLineRange]_vars

InitSlice ==
  /\ pc = "slice"
  /\ bytes \in SeqsUpTo(ByteAlphabet, MaxBytes)
  /\ range \in ValidLineRanges
  /\ sliced = <<>> /\ resliced = <<>>
  /\ IdleSqueeze /\ IdleRow /\ IdleDiff /\ IdleStream

NextSlice == Slice \/ Reslice

SpecSlice == InitSlice /\ [][NextSlice]_vars

InitSqueeze ==
  /\ pc = "squeeze"
  /\ bytes \in SeqsUpTo(ByteAlphabet, MaxBytes)
  /\ limit \in Limits
  /\ squeezed = <<>> /\ resqueezed = <<>>
  /\ range = [start |-> 1, end |-> 1] /\ sliced = <<>> /\ resliced = <<>>
  /\ IdleRow /\ IdleDiff /\ IdleStream

NextSqueeze == Squeeze \/ Resqueeze

SpecSqueeze == InitSqueeze /\ [][NextSqueeze]_vars

\* a fragment is (text, style_key): the key of a style the theme has, of one it
\* lacks, or no key
RowFragments == [text : {<<"X">>, <<" ">>}, key : {<<>>, <<"keyword">>, <<"none">>}]
RowLineNumbers == {1, 10, 123}
RowLineChanges == {NoneVal, "Added", "Modified", "Removed"}

InitRow ==
  /\ pc = "row"
  /\ call \in [content : SeqsUpTo(RowFragments, MaxFragments),
               line_no : RowLineNumbers,
               config : [show_numbers : BOOLEAN, show_changes : BOOLEAN],
               line_change : RowLineChanges,
               line_number_width : 1..MaxWidth]
  /\ output = <<>>
  /\ IdleSlice /\ IdleSqueeze /\ IdleDiff /\ IdleStream

NextRow == RenderRow

SpecRow == InitRow /\ [][NextRow]_vars

InitDiff ==
  /\ pc = "parse"
  /\ diff \in SeqsUpTo(DiffLineForms, MaxDiffLines)
  /\ next_i = 1 /\ changes = EmptyMap /\ current_new_line = 1 /\ change_map = <<>>
  /\ IdleSlice /\ IdleSqueeze /\ IdleRow /\ IdleStream

NextDiff ==
  \/ DiffBlank \/ DiffHeader \/ DiffMeta \/ DiffContext
  \/ DiffRemoval \/ DiffAdded \/ DiffOther \/ DiffFinish

SpecDiff == InitDiff /\ [][NextDiff]_vars

\* longer diffs over fewer forms of line, in which a second hunk header can
\* take the cursor back to a line the first hunk classified
InitRevisit ==
  /\ pc = "parse"
  /\ diff \in SeqsUpTo({HunkHeader3, RemovedLine, AddedLine, ContextLine,
                        OldFileLine, OtherLine, BlankLine}, MaxRevisitLines)
  /\ next_i = 1 /\ changes = EmptyMap /\ current_new_line = 1 /\ change_map = <<>>
  /\ IdleSlice /\ IdleSqueeze /\ IdleRow /\ IdleStream

SpecRevisit == InitRevisit /\ [][NextDiff]_vars


-----------------------------------------------------------------------------
(* The slicer: claims C9 and C10 *)

\* C9: for every byte buffer and every range with 1 <= start <= end, the slice is
\* the in-order concatenation of exactly the lines whose 1-based number lies in
\* the range, each with its '\n', a final unterminated line included when its
\* number is in range; no byte of any other line is output.
C9_SliceIsLinesInRange ==
  pc \in {"sliced", "resliced"} => sliced = BytesOfLines(bytes, range)

\* a slice that cut lines off at both ends and kept a final unterminated line
C9_Witness ==
  /\ pc = "sliced" /\ range.start = 2 /\ sliced /= <<>>
  /\ Last(bytes) /= "\n" /\ Last(sliced) /= "\n"
  /\ Len(sliced) < Len(bytes)

\* C10 as stated: slicing a slice again with the same range changes nothing.
C10_SliceIdempotent == pc = "resliced" => resliced = sliced

\* C10 as amended: slicing a slice again with the same range changes nothing
\* exactly when the range starts at line 1 or the slice is empty; with start > 1
\* the lines of a non-empty slice are renumbered from 1, and the second slicing
\* drops at least the first of them.
C10_SliceIdempotentFromLineOne ==
  pc = "resliced" => ((resliced = sliced) <=> (range.start = 1 \/ sliced = <<>>))

\* a range from line 1 cut the buffer, and the second slicing kept the result
C10_Witness ==
  /\ pc = "resliced" /\ range.start = 1 /\ sliced /= <<>>
  /\ Len(sliced) < Len(bytes) /\ resliced = sliced

-----------------------------------------------------------------------------
(* The diff parser: claim C3 *)

IsRun(d, from, to, form) == \A i \in from..to : d[i] = form

\* C3: a hunk with header +3 and a body of one or more '-' lines followed by
\* k >= 1 '+' lines classifies line 3 as Modified, lines 4 .. 3+k-1 as Added,
\* and nothing above line 3+k-1.
C3_ReplacementHunk ==
  \A j \in 1..MaxDiffLines :
    LET k == Len(diff) - 1 - j
    IN (/\ pc = "parsed" /\ k >= 1
        /\ diff[1] = HunkHeader3
        /\ IsRun(diff, 2, 1 + j, RemovedLine)
        /\ IsRun(diff, 2 + j, Len(diff), AddedLine))
       => change_map = [i \in 1..(3 + k - 1) |->
                          IF i = 3 THEN "Modified" ELSE IF i > 3 THEN "Added" ELSE NoneVal]


-----------------------------------------------------------------------------
(* The streaming compositor: claims C1, C2 and C4 to C8 *)

StreamOk == pc = "done" /\ result = "Ok"
Streaming == pc \in {"event", "line"}

\* the rows of rendered output: what stands between its newlines, escape tokens removed
Rows(s) == SplitOn(Visible(s), "\n", <<>>)

HasPrefix(row, p) == Len(row) >= Len(p) /\ SubSeq(row, 1, Len(p)) = p

RECURSIVE Join(_, _)
Join(rows, sep) ==
  IF rows = <<>> THEN <<>>
  ELSE IF Len(rows) = 1 THEN rows[1]
  ELSE rows[1] \o <<sep>> \o Join(Tail(rows), sep)

DropFromEach(rows, n) == [i \in DOMAIN rows |-> SubSeq(rows[i], n + 1, Len(rows[i]))]

\* visible length of the decoration prefix the streaming path puts before a row
StreamPrefixLen ==
  (IF effective_config.show_numbers THEN width ELSE 0)
  + (IF effective_config.show_changes THEN 2 ELSE 0)
  + (IF HasDecorations(effective_config) THEN 3 ELSE 0)

\* the content the streaming path wrote: its output without escape tokens and
\* without what render_decorated_line puts before each row
StreamContent ==
  IF HasDecorations(cfg)
  THEN Join(DropFromEach(Rows(out.sink), StreamPrefixLen), "\n")
  ELSE Visible(out.sink)

\* the content of the unstyled rendering: its output without the
\* "{:>width$}  " prefix number_plain_text puts before each chunk
FallbackContent ==
  LET rendered == PlainRender(text, cfg)
      w == line_number_width(cfg.line_number_start + (count_lines_bytes(text) - 1))
  IN IF cfg.show_numbers
     THEN Concat(DropFromEach(SplitInclusive(rendered, <<>>), w + 2))
     ELSE rendered

\* C1: for every text and every event stream whose Source spans partition it,
\* the content characters the streaming compositor emits (escape tokens and
\* decoration prefixes ignored) are those the non-streaming plain rendering
\* emits for the same text and options: nothing is dropped or duplicated.
C1_StreamingMatchesFallback == StreamOk => StreamContent = FallbackContent

\* C2: when the event stream reports an error after output has been flushed,
\* the fallback emits only what had not been flushed: once it has completed,
\* every line of the input is in the sink exactly once.
C2_FallbackEmitsOnlyUnflushed ==
  (pc = "done" /\ result = "Highlight")
    => CountOf(out.sink, "\n") = CountOf(text, "\n")

\* the case of C4: the whole file, numbers and change markers requested, and
\* exactly one line of the file classified, as Modified
ExactlyOneModified(map, n) ==
  \E m \in DOMAIN map :
    /\ m <= n /\ map[m] = "Modified"
    /\ \A j \in DOMAIN map \ {m} : map[j] = NoneVal

C4Case ==
  /\ StreamOk /\ cfg.show_numbers /\ cfg.show_changes
  /\ cfg.line_number_start = 1
  /\ ExactlyOneModified(cfg.git_changes, count_lines_bytes(text))

C4Marker(i) ==
  IF i \in DOMAIN cfg.git_changes /\ cfg.git_changes[i] = "Modified" THEN "~" ELSE " "

\* n rows, row i beginning with the right-aligned number i, a space, the
\* marker, a space and the grid glyph
C4Rows(n) ==
  /\ Len(Rows(out.sink)) = n
  /\ \A i \in 1..n :
       HasPrefix(Rows(out.sink)[i],
                 FormatRight(i, width) \o <<" ", C4Marker(i), " ", "GRID", " ">>)

\* C4 as stated: a file of N lines gives exactly N rows, each beginning with the
\* right-aligned line number, the change marker ('~' on the modified line, a
\* space elsewhere) and the grid glyph.
C4_RowPerLine == C4Case => C4Rows(count_lines_bytes(text))

\* C4 as amended: a text with k newline characters gives exactly k+1 rows (N
\* rows for a file whose last line is unterminated, N+1 for a file that ends
\* with a newline: the last row then has no content), each beginning with the
\* right-aligned line number, the change marker and the grid glyph.
C4_RowPerNewlinePlusOne == C4Case => C4Rows(CountOf(text, "\n") + 1)

\* three rows, the second one marked '~'
C4_Witness ==
  /\ C4Case /\ Len(Rows(out.sink)) = 3
  /\ Rows(out.sink)[2][width + 2] = "~"
  /\ Rows(out.sink)[1][width + 2] = " "

\* C5: when the event stream completes without error for a text with k
\* newlines, the decorated path renders exactly k+1 rows, numbered
\* line_number_start .. line_number_start+k; the last row is rendered even when
\* it has no content, so its line number and grid appear in the output.
C5_RowsRendered ==
  (StreamOk /\ HasDecorations(cfg)) =>
    LET k == CountOf(text, "\n")
        rows == Rows(out.sink)
    IN /\ hist.rows = [i \in 1..(k + 1) |-> cfg.line_number_start + i - 1]
       /\ Len(rows) = k + 1
       /\ \A i \in 1..(k + 1) :
            /\ cfg.show_numbers =>
                 HasPrefix(rows[i], FormatRight(cfg.line_number_start + i - 1, width))
            /\ HasDecorations(effective_config) => CountOf(rows[i], "GRID") = 1

\* a text that ends with a newline: the last of its rows is the prefix alone
C5_Witness ==
  /\ StreamOk /\ cfg.show_numbers /\ ~cfg.show_changes
  /\ text /= <<>> /\ Last(text) = "\n" /\ Len(hist.rows) = 3
  /\ Last(Rows(out.sink)) = FormatRight(cfg.line_number_start + 2, width) \o <<" ", "GRID", " ">>

C7_WaterMarks ==
  /\ [](/\ out.after_push < STREAM_OUTPUT_BUFFER_BYTES
        /\ hist.after_line < STREAM_OUTPUT_FLUSH_BYTES)
  /\ [][(flushed_visible_output /\ pc' \in {"event", "line"})
          => flushed_visible_output']_vars

\* a push left more than the low-water mark in the buffer, and a completed line
\* stayed in the buffer after the first flush
C7_Witness ==
  /\ Streaming /\ flushed_visible_output
  /\ out.after_push >= STREAM_OUTPUT_FLUSH_BYTES
  /\ hist.after_line > 0 /\ out.buf /= <<>>

\* C8: while the StreamBuffer lives, what was written to the sink followed by
\* what the accumulator holds is the concatenation of the fragments pushed, in
\* push order; every flush ends between two pushed fragments; and after the
\* final flush of a successful run the accumulator is empty.
C8_BufferInvariant ==
  (Streaming \/ StreamOk) =>
    /\ out.sink \o out.buf = out.pushed
    /\ out.flush_ends \subseteq out.frag_ends
    /\ StreamOk => out.buf = <<>>

\* part of the output is in the sink, part still in the accumulator
C8_Witness ==
  /\ pc = "event" /\ out.sink /= <<>> /\ out.buf /= <<>>
  /\ Cardinality(out.frag_ends) >= 4


-----------------------------------------------------------------------------
(* Compaction of blank lines: claims C11 and C12 *)

\* a line of the output is blank when it is "\n" or "\r\n"
IsBlankOutputLine(chunk) == chunk = <<"\n">> \/ chunk = <<"\r", "\n">>

\* the lines i..j of chunks are all blank
BlankRun(chunks, i, j) == \A k \in i..j : IsBlankOutputLine(chunks[k])

\* C11: for every byte buffer and every limit >= 0 the compacted output has no
\* run of more than limit consecutive blank lines, a line being blank when it
\* is empty or only a '\r' before its '\n'; with limit 0 it has no blank line.
C11_NoLongBlankRun ==
  pc \in {"squeezed", "resqueezed"} =>
    LET chunks == SplitInclusive(squeezed, <<>>)
    IN \A i \in 1..Len(chunks) :
         (i + limit <= Len(chunks)) => ~BlankRun(chunks, i, i + limit)

\* a blank line with a CRLF ending was dropped from a run of two, and limit
\* blank lines of the run were kept
C11_Witness ==
  /\ pc = "squeezed" /\ limit = 1
  /\ bytes = <<"\n", "\r", "\n", "a">>
  /\ squeezed = <<"\n", "a">>

\* C12: compaction is idempotent: for every byte buffer, CRLF line endings
\* and an unterminated last line included, and every limit >= 0, compacting
\* the compacted buffer again with the same limit changes nothing.
C12_SqueezeIdempotent == pc = "resqueezed" => resqueezed = squeezed

\* the first compaction dropped lines of a buffer with a CRLF blank line and
\* an unterminated last line; the second kept what was left
C12_Witness ==
  /\ pc = "resqueezed" /\ Len(squeezed) < Len(bytes) /\ squeezed /= <<>>
  /\ \E i \in 1..(Len(bytes) - 1) : bytes[i] = "\r" /\ bytes[i + 1] = "\n"
  /\ Last(bytes) /= "\n" /\ resqueezed = squeezed


-----------------------------------------------------------------------------
(* The diff parser: claims C13 to C15 *)

NoPlusLine == \A i \in 1..Len(diff) : ~StartsWithChar(diff[i], "+")

\* the parser is at a '-' line that no '+' line follows
AtPureRemoval ==
  /\ Matched /\ StartsWithChar(ThisLine, "-")
  /\ ~(next_i + 1 <= Len(diff) /\ StartsWithChar(diff[next_i + 1], "+"))

\* C13: a diff with no line that starts with '+' (so no '-' line is followed
\* by a '+' line) yields an empty change map; and the step over a '-' line
\* that no '+' line follows records nothing and leaves the cursor where it was.
C13_PureRemovalsRecordNothing ==
  /\ []((pc = "parsed" /\ NoPlusLine) => change_map = <<>>)
  /\ [][(AtPureRemoval /\ next_i' = next_i + 1)
          => (changes' = changes /\ current_new_line' = current_new_line)]_vars

\* a hunk of two removals, parsed to the end
C13_Witness ==
  /\ pc = "parsed" /\ NoPlusLine /\ Len(diff) >= 3
  /\ diff[1] = HunkHeader3 /\ diff[2] = RemovedLine /\ diff[3] = RemovedLine
  /\ change_map = <<>> /\ current_new_line = 3

NoHunkHeader ==
  \A i \in 1..Len(diff) : ~(StartsWith(diff[i], "@@") /\ parse_diff_header(diff[i]) /= <<>>)

\* C14: parse_unified_diff returns a change map for every input, and an
\* input with no line that parses as a hunk header yields the empty map.
C14_MalformedGivesEmptyMap == (pc = "parsed" /\ NoHunkHeader) => change_map = <<>>

\* the highest line classified, 0 when none is
HighestClassified == IF DOMAIN changes = {} THEN 0 ELSE MaxKey(changes)

\* C15: the change map returned is as long as the highest classified line
\* number (empty when nothing is classified); slot i holds the class of line i
\* when line i was classified and None otherwise; so the last slot of a
\* non-empty change map is never None.
C15_DenseChangeMap ==
  pc = "parsed" =>
    /\ Len(change_map) = HighestClassified
    /\ \A i \in 1..Len(change_map) :
         change_map[i] = IF i \in DOMAIN changes THEN changes[i] ELSE NoneVal
    /\ change_map /= <<>> => Last(change_map) /= NoneVal

\* a map with unclassified slots below the classified lines
C15_Witness ==
  /\ pc = "parsed" /\ Len(change_map) = 4
  /\ change_map[4] = "Added" /\ change_map[3] = "Added"
  /\ change_map[1] = NoneVal /\ change_map[2] = NoneVal


-----------------------------------------------------------------------------
(* The decoration composer: claims C16 to C18 *)

RowRendered == pc = "rendered"

\* the marker of each class of change, as the layout states it
RowMarker ==
  IF call.line_change = "Added" THEN "+"
  ELSE IF call.line_change = "Modified" THEN "~"
  ELSE IF call.line_change = "Removed" THEN "-" ELSE " "

RowContentText == Concat([i \in DOMAIN call.content |-> call.content[i].text])

RowDigits == Digits(call.line_no)
RowNumberLen == Max(call.line_number_width, Len(RowDigits))

\* the segments before the content, styling removed
RowNumberSegment == SubSeq(Visible(output), 1, RowNumberLen)

\* C16: render_decorated_line emits, in this order, the number (iff
\* show_numbers), a space and the one-character marker (iff show_changes: '+'
\* Added, '~' Modified, '-' Removed, space for no change), the separator space
\* and the two-character grid glyph (iff show_numbers or show_changes), and
\* then the content fragments in their given order.
C16_SegmentOrder ==
  RowRendered =>
    LET numbers == call.config.show_numbers
        marks == call.config.show_changes
        rest == SubSeq(Visible(output), IF numbers THEN RowNumberLen + 1 ELSE 1,
                       Len(Visible(output)))
    IN /\ numbers => \A i \in 1..RowNumberLen : RowNumberSegment[i] \in {" "} \cup Range(DigitChars)
       /\ rest = (IF marks THEN <<" ", RowMarker>> ELSE <<>>)
                 \o (IF numbers \/ marks THEN <<" ">> ELSE <<>>)
                 \o (IF numbers \/ marks THEN <<"GRID", " ">> ELSE <<>>)
                 \o RowContentText

\* a row with every segment: number, marker of a removal, grid, two fragments
C16_Witness ==
  /\ RowRendered /\ call.config.show_numbers /\ call.config.show_changes
  /\ call.line_change = "Removed" /\ Len(call.content) = 2
  /\ call.content[1].text /= call.content[2].text

RECURSIVE Zeros(_)
Zeros(n) == IF n <= 0 THEN <<>> ELSE <<"0">> \o Zeros(n - 1)

\* C17 as stated: with show_numbers the number segment of a row is the line
\* number right-aligned and zero-padded to number_width characters.
C17_NumberZeroPadded ==
  (RowRendered /\ call.config.show_numbers) =>
    RowNumberSegment = Zeros(call.line_number_width - Len(RowDigits)) \o RowDigits

\* C17 as amended: with show_numbers the number segment of a row is the line
\* number in decimal, right-aligned and padded on the left with spaces to
\* number_width characters; a number with more digits is emitted in full.
C17_NumberSpacePadded ==
  (RowRendered /\ call.config.show_numbers) =>
    LET pad == RowNumberLen - Len(RowDigits)
    IN /\ Len(Visible(output)) >= RowNumberLen
       /\ \A i \in 1..pad : RowNumberSegment[i] = " "
       /\ SubSeq(RowNumberSegment, pad + 1, RowNumberLen) = RowDigits
       /\ pad = IF call.line_number_width > Len(RowDigits)
                THEN call.line_number_width - Len(RowDigits) ELSE 0

\* line 1 at width 3: two characters of padding
C17_Witness ==
  /\ RowRendered /\ call.config.show_numbers
  /\ call.line_no = 1 /\ call.line_number_width = 3
  /\ RowNumberSegment = <<" ", " ", "1">>

\* digit count of the highest line number a file's rows carry
FileNumberWidth == Len(Digits(cfg.line_number_start + highlight_line_count(text) - 1))

\* C18: the number width of a file is the decimal digit count of
\* start_line + total_lines - 1, total_lines being the count of rows; every
\* row rendered for the file has a number field of exactly that width, and no
\* line number rendered has more digits than the width.
C18_StableNumberWidth ==
  (StreamOk /\ cfg.show_numbers) =>
    /\ width = FileNumberWidth
    /\ Len(Rows(out.sink)) = Len(hist.rows)
    /\ \A i \in 1..Len(hist.rows) :
         LET digits == Digits(hist.rows[i])
             field == SubSeq(Rows(out.sink)[i], 1, FileNumberWidth)
         IN /\ Len(digits) <= FileNumberWidth
            /\ Len(Rows(out.sink)[i]) > FileNumberWidth
            /\ field = Spaces(FileNumberWidth - Len(digits)) \o digits
            /\ Rows(out.sink)[i][FileNumberWidth + 1] = " "

\* rows 9, 10 and 11 of a file that starts at line 9, all at width 2, with
\* content of different lengths
C18_Witness ==
  /\ StreamOk /\ cfg.show_numbers /\ ~cfg.show_changes /\ cfg.line_number_start = 9
  /\ hist.rows = <<9, 10, 11>> /\ width = 2
  /\ SubSeq(Rows(out.sink)[1], 1, 2) = <<" ", "9">>
  /\ SubSeq(Rows(out.sink)[3], 1, 2) = <<"1", "1">>
  /\ Len(Rows(out.sink)[1]) /= Len(Rows(out.sink)[3])


-----------------------------------------------------------------------------
(* Unprintable mode and the scope stack: claims C19 and C20 *)

\* C19: in unprintable mode the streaming compositor appends the line-feed
\* marker after the text of a line that had content, and every line-feed
\* marker it emits stands immediately before the real newline of its line: no
\* marker is emitted that a real newline does not follow.
C19_MarkerBeforeNewline ==
  (StreamOk /\ cfg.show_all) =>
    LET v == Visible(out.sink)
        marker == LfMarker(cfg.char_style)
    IN /\ \A i \in 1..Len(v) : v[i] = marker => (i < Len(v) /\ v[i + 1] = "\n")
       /\ ~HasDecorations(cfg) =>
            \A i \in 2..Len(v) : (v[i] = "\n" /\ v[i - 1] /= "\n") => v[i - 1] = marker


\* C20: for every event sequence, those with more HighlightEnd than
\* HighlightStart events included, a HighlightEnd received while the scope
\* stack is empty leaves the stack empty and raises no error (the run is where
\* it was: same position, same output, no result yet), and the events that
\* follow are processed: the next Source span can still be taken.
C20_StrayEndIgnored ==
  /\ [][stray_at' /= stray_at
          => /\ style_stack = <<>> /\ style_stack' = <<>>
             /\ pc' = "event" /\ result' = result
             /\ iter_pos' = iter_pos /\ out' = out]_vars
  /\ []((pc = "event" /\ stray_at /= {} /\ iter_pos < Len(text)) => ENABLED EvSource)
  /\ [](Len(style_stack) >= 0)

\* a HighlightEnd arrived before anything was read and another in the middle
\* of the text, and the run completed with the whole text rendered
C20_Witness ==
  /\ StreamOk /\ 0 \in stray_at /\ 1 \in stray_at /\ Len(text) = 2
  /\ StreamContent = text


-----------------------------------------------------------------------------
(* C21: the style of a fragment is that of the innermost scope *)

\* the key of the innermost scope, "none" when no scope is open
InnermostKey ==
  IF style_stack = <<>> THEN "none" ELSE THEME_KEYS[Last(style_stack) + 1]

\* what the step pushed to the stream buffer
NewlyPushed == SubSeq(out'.pushed, Len(out.pushed) + 1, Len(out'.pushed))

StyleTokens == {"ESC[" \o k : k \in Range(THEME_KEYS)}

StyleTokensOf(s) == SelectSeq(s, LAMBDA x : x \in StyleTokens)

RECURSIVE KeysOf(_)
KeysOf(content) ==
  IF content = <<>> THEN <<>>
  ELSE (IF Head(content).key = <<>> THEN <<>> ELSE <<"ESC[" \o Head(content).key[1]>>)
       \o KeysOf(Tail(content))

InnermostToken == IF InnermostKey = "none" THEN <<>> ELSE <<"ESC[" \o InnermostKey>>

\* C21: whenever a content fragment is processed, the style it gets is the
\* one of the key of the innermost open scope, and none at all when no scope
\* is open or the innermost key is "none", whatever the outer scopes are: the
\* plain path writes the fragment with exactly that style, the decorated path
\* records the fragment under that key and renders the row's fragments each
\* in the style recorded for it.
C21_InnermostStyle ==
  [][(pc = "line" /\ lines /= <<>>) =>
       IF ~HasDecorations(cfg)
       THEN StyleTokensOf(NewlyPushed) = InnermostToken
       ELSE IF line_content' /= <<>>
            THEN /\ KeysOf(line_content') = KeysOf(line_content) \o InnermostToken
                 /\ NewlyPushed = <<>>
            ELSE StyleTokensOf(NewlyPushed) = KeysOf(line_content) \o InnermostToken]_vars

\* a first fragment was written in the keyword style and a second one
\* unstyled, while a "none" scope is open inside a "keyword" scope
C21_Witness ==
  /\ pc = "event" /\ style_stack = <<0, 1>> /\ text = <<" ", " ">>
  /\ iter_pos = 2
  /\ out.pushed = <<"ESC[keyword", " ", "ESC[0m", " ">>


-----------------------------------------------------------------------------
(* C22: the fallback after a highlighter error *)

HasSuffix(chunk, p) ==
  Len(chunk) >= Len(p) /\ SubSeq(chunk, Len(chunk) - Len(p) + 1, Len(chunk)) = p

\* what the fallback is to write for line i of the text, given as chunk: no
\* escape tokens, the line's content (transformed in unprintable mode) at
\* the end, and before it the line's number and change marker when requested
FallbackRowDecorated(chunk, i, line) ==
  LET shown == IF cfg.show_all THEN show_unprintable(line, cfg.char_style) ELSE line
      before == SubSeq(chunk, 1, Len(chunk) - Len(shown))
  IN /\ Visible(chunk) = chunk
     /\ HasSuffix(chunk, shown)
     /\ cfg.show_numbers
          => SelectSeq(before, LAMBDA x : x \in Range(DigitChars))
               = Digits(cfg.line_number_start + (i - 1))
     /\ (cfg.show_changes /\ LineChangeAt(i - 1) /= NoneVal)
          => ChangeSymbol(LineChangeAt(i - 1)) \in Range(before)

\* C22: when highlighting reports an error, at the creation of the event
\* stream or at an event, the streaming path is left, the run still completes
\* (the error is not handed to the caller), and the fallback writes the whole
\* text unstyled, every line with the decorations requested for it (its line
\* number, its change marker) and with the unprintable transform applied.
C22_FallbackKeepsDecorations ==
  /\ pc = "fallback" => result = "Highlight"
  /\ (pc = "done" /\ result = "Highlight") =>
       \E k \in 0..Len(out.sink) :
         LET written == SplitInclusive(SubSeq(out.sink, k + 1, Len(out.sink)), <<>>)
             source_lines == SplitInclusive(text, <<>>)
         IN /\ Len(written) = Len(source_lines)
            /\ \A i \in DOMAIN source_lines :
                 FallbackRowDecorated(written[i], i, source_lines[i])


-----------------------------------------------------------------------------
(* C23: content that is not valid UTF-8 *)

\* the content emit_bytes renders was computed, and it is not valid UTF-8
EmittedInvalid == pc /= "emit" /\ ~Utf8Valid(squeezed)

\* C23: when the sliced and compacted content is not valid UTF-8, emit_bytes
\* never enters the styled path and writes the bytes of the content
\* unchanged, each line preceded by its right-aligned line number and two
\* spaces when show_numbers is set and by nothing otherwise, whatever
\* use_color, show_all and show_changes are.
C23_InvalidUtf8PassedThrough ==
  EmittedInvalid =>
    /\ pc = "done" /\ result = "none"
    /\ IF call.show_numbers
       THEN LET chunks == SplitInclusive(squeezed, <<>>)
                written == SplitInclusive(out.sink, <<>>)
                w == line_number_width(cfg.line_number_start + (Len(chunks) - 1))
            IN /\ Len(written) = Len(chunks)
               /\ \A i \in DOMAIN chunks :
                    written[i] = FormatRight(cfg.line_number_start + (i - 1), w)
                                   \o <<" ", " ">> \o chunks[i]
       ELSE out.sink = squeezed


-----------------------------------------------------------------------------
(* C24 and C25: the unprintable transform *)

Shown == pc = "shown"

\* the row of the table for the code point c
TableRow(c, style) ==
  IF c = 32 THEN <<183>>
  ELSE IF c = 8203 THEN <<91, 90, 87, 83, 80, 93>>
  ELSE IF c = 8204 THEN <<91, 90, 87, 78, 74, 93>>
  ELSE IF c = 8205 THEN <<91, 90, 87, 74, 93>>
  ELSE IF c = 65279 THEN <<91, 66, 79, 77, 93>>
  ELSE IF c = 10 THEN <<IF style = "Unicode" THEN 9226 ELSE 36, 10>>
  ELSE IF style = "Unicode"
  THEN IF c = 9 THEN <<8594>>
       ELSE IF c = 13 THEN <<8629>>
       ELSE IF c = 127 THEN <<9249>>
       ELSE IF c \in 0..31 THEN <<9216 + c>>
       ELSE <<c>>
  ELSE IF c \in 0..31 THEN <<94, c + 64>>
       ELSE IF c = 127 THEN <<94, 63>>
       ELSE <<c>>

\* C24: show_unprintable maps every character on its own, by the table: in
\* Unicode mode tab -> U+2192, CR -> U+21B5, DEL -> U+2421 and every other C0
\* code c (ESC and NUL among them) -> U+2400+c; in caret mode every C0 code c
\* -> '^' and the ASCII character c+0x40, DEL -> "^?"; in both modes space ->
\* U+00B7, the zero-width characters and the BOM -> their bracketed tags, the
\* newline -> its row of the table (marker, then the newline); every other
\* character is passed through unchanged.
C24_TableApplied ==
  Shown => output = Concat([i \in DOMAIN call.text |-> TableRow(call.text[i], call.style)])

\* a tab and a C1 control in caret mode: "^I", and the control unchanged
C24_Witness ==
  /\ Shown /\ call.style = "Caret" /\ call.text = <<9, 128>>
  /\ output = <<94, 73, 128>>

IsLfMarker(c, style) == c = (IF style = "Unicode" THEN 9226 ELSE 36)

\* C25: show_unprintable is defined on every string in both modes, and its
\* output holds exactly as many newlines as its input, each of them directly
\* preceded by the line-feed marker of the mode.
C25_MarkerThenNewline ==
  /\ pc = "show" => ENABLED ShowUnprintable
  /\ Shown =>
       /\ CountOf(output, 10) = CountOf(call.text, 10)
       /\ \A i \in DOMAIN output :
            output[i] = 10 => (i > 1 /\ IsLfMarker(output[i - 1], call.style))

\* two newlines in a row, in Unicode mode
C25_Witness ==
  /\ Shown /\ call.style = "Unicode" /\ call.text = <<10, 10>>
  /\ output = <<9226, 10, 9226, 10>>


-----------------------------------------------------------------------------
(* C26: the ranges parse_line_range produces *)

RangeParsed == pc = "ranged"

\* what "a<sep>b" and "n" are to denote
RangeOfBounds(a, b) == IF a >= 1 /\ b >= a THEN <<[start |-> a, end |-> b]>> ELSE <<>>

\* C26: every LineRange parse_line_range produces has start >= 1 and
\* end >= start; for numbers a and b, "a-b", "a:b" and "a,b" all give the
\* range {a, b} when 1 <= a <= b and no range when a bound is zero or b < a;
\* a single number n gives the range {n, n}, and no range when it is zero.
C26_RangesWellFormed ==
  RangeParsed =>
    /\ output /= <<>> => (output[1].start >= 1 /\ output[1].end >= output[1].start)
    /\ \A a \in 0..9, b \in 0..9 :
         /\ \A sep \in {"-", ":", ","} :
              call.raw = Digits(a) \o <<sep>> \o Digits(b) => output = RangeOfBounds(a, b)
         /\ call.raw = Digits(a) => output = RangeOfBounds(a, a)

\* "1,2" was parsed as the range {1, 2}
C26_Witness ==
  /\ RangeParsed /\ call.raw = <<"1", ",", "2">>
  /\ output = <<[start |-> 1, end |-> 2]>>


-----------------------------------------------------------------------------
(* The diff parser: claims C27, C29 and C30 *)

\* C27: whatever the diff, the parser records only Added and Modified: no
\* entry of its map and no slot of the ChangeMap it returns holds Removed.
C27_NeverRemoved ==
  /\ \A k \in DOMAIN changes : changes[k] \in {"Added", "Modified"}
  /\ \A i \in DOMAIN change_map : change_map[i] \in {NoneVal, "Added", "Modified"}

\* a removal that no '+' line follows, then an addition, parsed to the end
C27_Witness ==
  /\ pc = "parsed" /\ diff = <<HunkHeader3, RemovedLine, ContextLine, AddedLine>>
  /\ change_map = <<NoneVal, NoneVal, NoneVal, "Added">>

\* the fields of a hunk header as git writes it: "@@ -o[,s] +n[,t] @@", where
\* a count of 1 is left out
HeaderFields(line) == SplitWhitespace(line)
SideNumbers(field) == SplitOn(Tail(field), ",", <<>>)

IsGitHunkHeader(line) ==
  /\ Len(HeaderFields(line)) >= 4
  /\ HeaderFields(line)[1] = <<"@@">> /\ HeaderFields(line)[4] = <<"@@">>
  /\ StartsWith(HeaderFields(line)[2], "-") /\ StartsWith(HeaderFields(line)[3], "+")
  /\ \A f \in {2, 3} :
       /\ Len(SideNumbers(HeaderFields(line)[f])) \in {1, 2}
       /\ \A j \in DOMAIN SideNumbers(HeaderFields(line)[f]) :
            ParseUsize(SideNumbers(HeaderFields(line)[f])[j]) /= <<>>

GitNewStart(line) == ParseUsize(SideNumbers(HeaderFields(line)[3])[1])[1]

\* C29: for every hunk header git can write, those that leave out a count of
\* 1 included, the step over the header sets the cursor to the header's
\* new-file start n, and a '+' line that directly follows the header is
\* classified at line n.
C29_GitHeaderSetsCursor ==
  /\ [][(Parsing /\ IsGitHunkHeader(ThisLine) /\ next_i' /= next_i)
          => current_new_line' = GitNewStart(ThisLine)]_vars
  /\ [][(Matched /\ StartsWithChar(ThisLine, "+") /\ next_i > 1
           /\ IsGitHunkHeader(diff[next_i - 1]) /\ next_i' /= next_i)
          => GitNewStart(diff[next_i - 1]) \in DOMAIN changes']_vars

\* C30: the step over a line that starts with "@@" and does not parse as a
\* hunk header (here the header without counts) leaves the cursor and the
\* classifications recorded so far as they are and moves on to the next
\* line, which is still processed; the step over a header that parses sets
\* the cursor to exactly its new_start (3, and 0 for the header of a deletion
\* at the top of the file) and keeps the classifications as well.
C30_BadHeaderSkipped ==
  /\ [][(Parsing /\ StartsWith(ThisLine, "@@") /\ next_i' /= next_i)
          => /\ changes' = changes /\ next_i' = next_i + 1 /\ pc' = "parse"
             /\ ThisLine = HunkHeaderShort => current_new_line' = current_new_line
             /\ ThisLine = HunkHeader3 => current_new_line' = 3
             /\ ThisLine = HunkHeaderZero => current_new_line' = 0]_vars
  /\ []((Parsing /\ next_i > 1 /\ diff[next_i - 1] = HunkHeaderShort) => ENABLED NextDiff)

\* an addition at line 3, a header that does not parse, and another addition:
\* it is classified at line 4, where the cursor was
C30_Witness ==
  /\ pc = "parsed" /\ diff = <<HunkHeader3, AddedLine, HunkHeaderShort, AddedLine>>
  /\ change_map = <<NoneVal, NoneVal, "Added", "Added">>


-----------------------------------------------------------------------------
(* C28: change markers and line numbers of a selected range *)

\* the classification of new-file line n in the ChangeMap git reported
ClassOfFileLine(n) ==
  IF n \in DOMAIN cfg.git_changes THEN cfg.git_changes[n] ELSE NoneVal

\* the change marker of a rendered row: it follows the number and one blank
MarkerOfRow(r) == r[(IF cfg.show_numbers THEN width ELSE 0) + 2]

\* C28: when the decorated streaming path has rendered a text with change
\* markers, the marker on each row is the one of the ChangeMap's class of the
\* new-file line whose number the row carries, whether the text is the whole
\* file or a selected range of it (one that starts after line 1 included),
\* compacted or not.
C28_MarkerOfDisplayedLine ==
  (StreamOk /\ effective_config.show_changes) =>
    /\ Len(Rows(out.sink)) = Len(hist.rows)
    /\ \A i \in DOMAIN hist.rows :
         MarkerOfRow(Rows(out.sink)[i]) = ChangeSymbol(ClassOfFileLine(hist.rows[i]))


-----------------------------------------------------------------------------
(* C31: the change-marker column *)

SomeLineClassified == \E i \in DOMAIN cfg.git_changes : cfg.git_changes[i] /= NoneVal

\* what stands before the content of row i when the marker column is drawn
\* (marked) or not
RowPrefix(i, marked) ==
  (IF cfg.show_numbers THEN FormatRight(hist.rows[i], width) ELSE <<>>)
  \o (IF marked THEN <<" ", ChangeSymbol(LineChangeAt(i - 1))>> ELSE <<>>)
  \o (IF cfg.show_numbers \/ marked THEN <<" ", "GRID", " ">> ELSE <<>>)

\* C31: the decorated streaming path, asked for change markers, draws the
\* marker column on every row when the ChangeMap classifies at least one
\* line, and on no row when it classifies none: the rows are then those
\* rendered without show_changes (the number and the grid when line numbers
\* are shown, the bare content otherwise).
C31_MarkerColumnOnlyWithChanges ==
  (StreamOk /\ cfg.show_changes) =>
    /\ Len(Rows(out.sink)) = Len(hist.rows)
    /\ \A i \in DOMAIN hist.rows :
         LET r == Rows(out.sink)[i]
         IN /\ HasPrefix(r, RowPrefix(i, SomeLineClassified))
            /\ CountOf(r, "GRID") = (IF cfg.show_numbers \/ SomeLineClassified THEN 1 ELSE 0)
            /\ ~SomeLineClassified => Range(r) \cap {"+", "~", "-"} = {}

\* two rows rendered with change markers requested and an empty ChangeMap:
\* the output is the bare text
C31_Witness ==
  /\ StreamOk /\ cfg.show_changes /\ ~cfg.show_numbers /\ ~cfg.show_all
  /\ cfg.git_changes = <<>> /\ text = <<" ", "\n">>
  /\ Visible(out.sink) = text /\ Len(hist.rows) = 2


-----------------------------------------------------------------------------
(* The diff parser: claims C32 and C33 *)

\* the parser takes the '+' arm of its match on this line
AtPlusLine == Matched /\ StartsWithChar(ThisLine, "+") /\ next_i' = next_i + 1

\* C32: the step over a '+' line records the line under the cursor as Added
\* when it has no classification yet and records nothing otherwise (an
\* existing classification is kept), touches no other line, and advances the
\* cursor by exactly one.
C32_AddedOnlyIfUnclassified ==
  [][AtPlusLine =>
       /\ current_new_line' = current_new_line + 1
       /\ DOMAIN changes' = DOMAIN changes \cup {current_new_line}
       /\ \A k \in DOMAIN changes : changes'[k] = changes[k]
       /\ current_new_line \notin DOMAIN changes => changes'[current_new_line] = "Added"]_vars

\* a replacement marked line 3 Modified; the '+' line that followed found
\* line 3 classified, left it Modified and moved the cursor to 4
C32_Witness ==
  /\ pc = "parsed" /\ diff = <<HunkHeader3, RemovedLine, AddedLine, AddedLine>>
  /\ changes = MapInsert(EmptyMap, 3, "Modified") /\ current_new_line = 4


\* C33 as stated: once a new-file line is classified, no later diff line, of
\* the same or of a later hunk, changes its classification.
C33_WriteOnce ==
  [][\A k \in DOMAIN changes : k \in DOMAIN changes' /\ changes'[k] = changes[k]]_vars

\* the parser takes a '-' line and the '+' line after it as a modification
AtReplacement ==
  /\ Matched /\ StartsWithChar(ThisLine, "-")
  /\ next_i + 1 <= Len(diff) /\ StartsWithChar(diff[next_i + 1], "+")

\* C33, amended: a classified line stays classified, and its classification
\* changes in one case only: a line classified Added becomes Modified when a
\* '-' line directly followed by a '+' line is read with the cursor on it.  A
\* line classified Modified stays Modified, and no '+' line read on its own
\* changes any classification.
C33_OnlyAddedToModified ==
  [][\A k \in DOMAIN changes :
       /\ k \in DOMAIN changes'
       /\ changes'[k] /= changes[k]
            => /\ changes[k] = "Added" /\ changes'[k] = "Modified"
               /\ AtReplacement /\ k = current_new_line]_vars

\* line 3 was classified Added, a second header took the cursor back to it,
\* and a replacement made it Modified
C33_Witness ==
  /\ pc = "parsed"
  /\ diff = <<HunkHeader3, AddedLine, HunkHeader3, RemovedLine, AddedLine>>
  /\ change_map = <<NoneVal, NoneVal, "Modified">>


-----------------------------------------------------------------------------
(* C34: what compaction removes *)

\* the lines of the input, each with its line ending
InputLines == SplitInclusive(bytes, <<>>)

\* a line is blank when nothing is left of it without its '\n' and one '\r'
\* before it; so is a last line that is a lone '\r'
IsBlankInputLine(i) == InputLines[i] \in {<<"\n">>, <<"\r", "\n">>, <<"\r">>}

\* the place of line i in its run of consecutive blank lines, counted from 1
PlaceInBlankRun(i) ==
  i - (CHOOSE j \in 0..(i - 1) :
         /\ j = 0 \/ ~IsBlankInputLine(j)
         /\ \A k \in (j + 1)..(i - 1) : IsBlankInputLine(k))

-----------------------------------------------------------------------------
(* A sink that refuses a write.  StreamBuffer::flush hands the buffer to
   write_all with `?` (main.rs 284-290); From<io::Error> makes the error a
   StreamHighlightError::Io (main.rs 669-673), every push and flush of the
   renderers passes it on with `?`, and write_rendered_text returns it
   (main.rs 720).  The fallback's own write_all is passed on the same way
   (main.rs 718).  The bytes a failing write_all got out before it failed
   are not modelled: the failing write leaves the sink as it was. *)

\* the stream buffer as the next step of the renderers leaves it when every
\* write succeeds (main.rs 772, 912-946, 950-956, 1031-1071, 1075-1085)
AfterRendererStep ==
  LET line == Head(lines)
      has_content == line_has_content \/ line /= <<>>
      newline_after == Tail(lines) /= <<>> \/ ends_with_newline
      WithLf(o, marked) ==
        IF cfg.show_all /\ marked THEN Push(o, <<LfMarker(cfg.char_style)>>) ELSE o
      Row(content) ==
        render_decorated_line(content, line_no, effective_config,
                              LineChangeAt(line_index), width)
      p1 == Push(out, PlainRendered(line))
      early == ~flushed_visible_output /\ ByteLen(p1.buf) >= STREAM_OUTPUT_FLUSH_BYTES
      p2 == IF early THEN Flush(p1) ELSE p1
      p3 == Push(WithLf(p2, has_content), RendererNewline)
      piece == IF cfg.show_all THEN show_unprintable(line, cfg.char_style) ELSE line
      d1 == Push(out, Row(Append(line_content,
                                 [text |-> piece, key |-> current_style_key(style_stack)])))
      d2 == Push(WithLf(d1, has_content), RendererNewline)
      EndOfLine(o, flushed) ==
        IF ~flushed THEN Flush(o) ELSE FlushIfAtLeast(o, STREAM_OUTPUT_FLUSH_BYTES)
  IN CASE pc = "start" -> Flush(Push(NewStreamBuffer, RendererHead))
       [] pc = "line" /\ lines /= <<>> /\ ~HasDecorations(cfg) ->
            IF newline_after THEN EndOfLine(p3, flushed_visible_output \/ early) ELSE p2
       [] pc = "line" /\ lines /= <<>> /\ HasDecorations(cfg) ->
            IF newline_after THEN EndOfLine(d2, flushed_visible_output) ELSE out
       [] IterEnds /\ ~HasDecorations(cfg) ->
            Flush(Push(WithLf(out, line_has_content), RendererTail))
       [] IterEnds /\ HasDecorations(cfg) ->
            Flush(Push(WithLf(Push(out, Row(line_content)), line_has_content),
                       RendererTail))
       [] OTHER -> out

\* the slip: every error of the streaming render starts the fallback
WriteFailsFallsBack ==
  /\ pc \in {"start", "event", "line"}
  /\ AfterRendererStep.sink /= out.sink
  /\ result' = "Io"
  /\ out' = [NewStreamBuffer EXCEPT !.sink = out.sink]
  /\ pc' = "fallback"
  /\ LocalsDropped
  /\ UNCHANGED <<text, cfg, hist, stray_at, pureVars, diffVars>>

\* main.rs 284-290, 669-673, 718-720
WriteFails ==
  \/ /\ pc \in {"start", "event", "line"}
     /\ AfterRendererStep.sink /= out.sink
     /\ result' = "Io"
     /\ out' = [out EXCEPT !.buf = <<>>]
     /\ pc' = "done"
     /\ LocalsDropped
     /\ UNCHANGED <<text, cfg, hist, stray_at, pureVars, diffVars>>
  \/ /\ pc = "fallback"
     /\ PlainRender(text, cfg) /= <<>>
     /\ result' = "Io"
     /\ pc' = "done"
     /\ UNCHANGED <<text, cfg, iter_pos, lines, ends_with_newline, style_stack,
                    line_no, line_index, line_has_content, line_content,
                    flushed_visible_output, out, hist, stray_at, pureVars, diffVars>>

SpecIo == InitScopes /\ [][Next \/ WriteFails]_vars

-----------------------------------------------------------------------------
(* C35: a failed write ends the render of the file *)

\* C35: when a write to the sink fails while the text is streamed, the
\* render ends with the I/O error and the sink as the failing write found
\* it; the fallback is not started; after an I/O error no step is taken, so
\* nothing more is written for the file; and the fallback is started by a
\* highlighter error only.
C35_IoErrorEndsRender ==
  [][/\ (pc \in {"start", "event", "line"} /\ result' = "Io")
          => (pc' = "done" /\ out'.sink = out.sink)
     /\ result /= "Io"
     /\ (pc' = "fallback" /\ pc /= "fallback")
          => (result = "none" /\ result' = "Highlight")]_vars

\* the first line was written, the write of the rest failed: the render
\* ended with the I/O error and the first line alone in the sink
C35_Witness ==
  /\ pc = "done" /\ result = "Io"
  /\ text = <<"\n", "\n">>
  /\ out.pushed /= <<>>
  /\ out.sink /= <<>> /\ Len(out.sink) < Len(out.pushed)


-----------------------------------------------------------------------------
(* The file header of main (main.rs 380-403): a border, the display name
   centred in the terminal width, a border.  The left padding is computed
   with saturating_sub, the right padding with plain usize subtraction.  A
   usize subtraction below zero panics where overflow checks are on and
   wraps where they are off; the wrapped count is above isize::MAX, and
   " ".repeat panics on it with a capacity overflow. *)

MaxTermWidth == 12   \* terminal widths 0..MaxTermWidth
MaxNameLen == 12     \* display names of 1..MaxNameLen bytes

InitHeader ==
  /\ pc = "header"
  /\ call \in [term_width : 0..MaxTermWidth, name_len : 1..MaxNameLen]
  /\ output = <<>>
  /\ IdleSlice /\ IdleSqueeze /\ IdleDiff /\ IdleStream

\* main.rs 385-402
PrintHeader ==
  /\ pc = "header"
  /\ LET term_width == call.term_width
         len == call.name_len
         saturating == IF term_width >= len THEN term_width - len ELSE 0
         padding == saturating \div 2
         right == term_width - len - padding
     IN IF term_width >= len
        THEN output' = [outcome |-> "printed", left |-> padding, right |-> right]
        ELSE \E how \in {"subtract with overflow", "capacity overflow"} :
               output' = [outcome |-> how, left |-> padding, right |-> right]
  /\ pc' = "header_done"
  /\ UNCHANGED <<sliceVars, squeezeVars, diffVars, streamVars>>
  /\ UNCHANGED call

SpecHeader == InitHeader /\ [][PrintHeader]_vars

-----------------------------------------------------------------------------
(* C36: the padding of the file header *)

\* C36: for every display-name length and every terminal width the right
\* padding term_width - len(display_name) - left_padding is not below zero,
\* and the header is printed without a panic.
C36_PaddingNeverNegative ==
  pc = "header_done" => (output.right >= 0 /\ output.outcome = "printed")


-----------------------------------------------------------------------------
(* The two unstyled numbered renderers side by side: number_plain_text
   (main.rs 1114-1136) on a text and write_numbered_bytes (main.rs 1138-1160)
   on the bytes of the same text.  A text is valid UTF-8 by construction; no
   character but '\n' holds the byte of '\n'. *)

MaxNumberedLen == 4   \* texts of up to MaxNumberedLen characters

InitNumbered ==
  /\ pc = "number"
  /\ call \in [text : SeqsUpTo({"a", "\r", "\n"}, MaxNumberedLen),
               line_number_start : {1, 8, 9, 98}]
  /\ output = <<>>
  /\ IdleSlice /\ IdleSqueeze /\ IdleDiff /\ IdleStream

NumberText ==
  /\ pc = "number"
  /\ output' = [plain |-> number_plain_text(call.text, call.line_number_start,
                                            FALSE, "Unicode"),
                written |-> write_numbered_bytes(call.text, call.line_number_start)]
  /\ pc' = "numbered"
  /\ UNCHANGED <<call, sliceVars, squeezeVars, diffVars, streamVars>>

SpecNumbered == InitNumbered /\ [][NumberText]_vars

-----------------------------------------------------------------------------
(* C37: the two unstyled numbered renderers agree *)

\* C37: for every text and every start line, number_plain_text without the
\* unprintable transform yields exactly what write_numbered_bytes writes for
\* the bytes of the text and the same start line: the same prefixes with the
\* same width and numbers, nothing for an empty text, and no prefix after a
\* final newline.
C37_NumberedRenderersAgree ==
  pc = "numbered" => output.plain = output.written

\* three lines from line 9 on, the last one ended by a newline: prefixes of
\* width 2 for lines 9, 10 and 11, and none after the final newline
C37_Witness ==
  /\ pc = "numbered"
  /\ call = [text |-> <<"a", "\n", "\n", "\n">>, line_number_start |-> 9]
  /\ output.written = <<" ", "9", " ", " ", "a", "\n",
                        "1", "0", " ", " ", "\n",
                        "1", "1", " ", " ", "\n">>
  /\ output.plain = output.written

====
